---- MODULE Spec2Model ----
(***************************************************************************)
(* Hackoverflow-bot: the request dispatcher of utils/llm.ts in its three   *)
(* queue-based revisions, the queue/cache persistence of the persistent    *)
(* revision, and the per-user rate limiter.                                *)
(*                                                                         *)
(* The JavaScript event loop is modelled at handler granularity: one       *)
(* action is one synchronous run of a callback (a macrotask, or one        *)
(* promise reaction).  A promise chain p.then(A).catch(B).finally(C) runs  *)
(* A or B in one reaction and C in a later one; the microtask queue is     *)
(* drained before any other macrotask runs, so no other handler runs       *)
(* between them, but the state between them exists.                        *)
(***************************************************************************)
EXTENDS Integers, Sequences, FiniteSets, TLC

(* ------------------------------ bounds --------------------------------- *)
\* Number of askLLM calls made by callers in one run (persist / simple revisions).
NumQueries == 4
\* Number of askLLM calls made by callers in one run (timeout revision).
NumQueriesT == 4
\* Cap on saveQueue calls that have not yet captured their snapshot (SpecPersist).
MaxPendingSaves == 2
\* askLLM calls in the runs that include the saveQueue completions
NumQueriesP == 3
\* askLLM calls of the persist / simple revisions in the runs checked for liveness
NumQueriesF == 3
\* askLLM calls in the runs that record the upstream outcomes
NumQueriesO == 3

(* The worker-pool sizes are 12 and 5 in the source; the model runs them   *)
(* scaled down so that the cap is reached with NumQueries queries.         *)
MAX_CONCURRENT_GROQ_REQUESTS == 2
MAX_CONCURRENT_REQUESTS == 2
\* askLLM (timeout revision) refuses to enqueue at 50 queued requests; scaled.
MAX_QUEUE_LENGTH == 1

\* Largest clock value of a run (the clock unit is half a second).
MaxTime == 8
\* Number of chat users calling the rate limiter.
NumUsers == 2
\* Longest request queue drawn for a snapshot round trip.
MaxSnapshotLen == 3

(* Time constants of the source, scaled to clock units: the source has     *)
(* CACHE_TIMEOUT = 30 min, RATE_LIMIT_WINDOW_MS = 60 s,                    *)
(* COOLDOWN_BETWEEN_REQUESTS_MS = 3 s, MAX_REQUESTS_PER_WINDOW = 10, a     *)
(* second of 1000 ms and a cleanup threshold of 5000 tracked users.        *)
CACHE_TIMEOUT == 2
RATE_LIMIT_WINDOW_MS == 3
COOLDOWN_BETWEEN_REQUESTS_MS == 1
MAX_REQUESTS_PER_WINDOW == 2
MS_PER_SECOND == 2
MAX_TRACKED_USERS == 1

\* A context keeps 10 messages in the source, five exchanges of a query and
\* its response, and buildConversationHistory returns 6, three exchanges;
\* both are scaled in whole exchanges.
StoredExchanges == 2
HistoryExchanges == 1
\* MAX_CONVERSATION_LENGTH (10 in the source)
MAX_CONVERSATION_LENGTH == 2 * StoredExchanges
\* messages returned by buildConversationHistory, slice(-6) in the source
HISTORY_LENGTH == 2 * HistoryExchanges
\* Queries submitted in the runs of the conversation cache.
NumQueriesC == 2
\* Queries submitted in the runs of the conversations.
NumQueriesV == 3
\* Attempts that throw in the runs of the conversation cache, all of one request.
MaxThrowsC == 1
\* MAX_CONCURRENT_REQUESTS_PER_USER of index.ts (3 in the source), scaled
MAX_CONCURRENT_REQUESTS_PER_USER == 2
\* the shutdown timeout in waits of the polling loop (10 s / 500 ms in the source)
SHUTDOWN_POLLS == 2
\* Queries submitted in the runs of the shutdown.
NumQueriesS == 2
\* Largest clock value in the runs of the conversation cache.
MaxTimeCache == 4

\* SAFETY_MAX_CONCURRENT (100 in the source), scaled
SAFETY_MAX_CONCURRENT == 2
\* MAX_REQUESTS_PER_MINUTE (250 in the source), scaled
MAX_REQUESTS_PER_MINUTE == 3
\* RATE_WINDOW_MS (one minute in the source) in clock units
RATE_WINDOW_MS == 2
\* askLLM calls in the runs of the revision without a queue
NumCallsD == 5
\* Largest clock value in the runs of the revision without a queue
MaxTimeD == 4

(* ------------------------- program constants --------------------------- *)
\* request.retryCount < 3
MAX_RETRIES == 3
\* Largest clock value in the runs of the cooldown check
MaxTimeCooldown == 5
\* COOLDOWN_MS (5000 in the source), scaled to clock ticks
COOLDOWN_MS == 2
\* userCooldowns.size above which entries are evicted (1000 in the source), scaled
MAX_COOLDOWN_USERS == 2
\* keys evicted at once by the timeout revision (100 in the source), scaled
EVICT_BATCH == 2

Queries == 1..(IF NumQueries > NumQueriesT THEN NumQueries ELSE NumQueriesT)
\* a file is <<>> when it does not exist (ENOENT) and <<content>> otherwise
NoFile == <<>>
File(content) == <<content>>
Undefined == "undefined"
Users == 1..NumUsers

Variants == {"persist", "simple", "timeout"}
\* the revision of utils/llm.ts with the per-user rate limiter and no queue
RateLimitVariant == "ratelimit"
\* the revision of utils/llm.ts that calls the upstream service directly
DirectVariant == "direct"

VARIABLES
  variant,              \* which revision of utils/llm.ts is running
  submitted,            \* number of askLLM calls made so far (query ids 1..submitted)
  requestQueue,         \* requestQueue: sequence of queued requests
  retryCount,           \* request.retryCount
  isProcessing,         \* isProcessing flag of processQueue
  activeGroqRequests,   \* in-flight counter (persist / simple revisions)
  activeRequests,       \* in-flight counter (timeout revision)
  attempts,             \* requests whose launched attempt has not been handled yet
  upstreamOpen,         \* requests with an upstream call that has not returned
  finishing,            \* request whose .then/.catch ran and whose .finally is pending
  settled,              \* state of the caller's promise
  settleCount,          \* number of resolve/reject calls made on the promise
  totalRequests, successfulRequests, failedRequests,
  pendingSaves,         \* saveQueue calls waiting in ensureDataDir (not yet captured)
  pendingWrites,        \* captured snapshots whose writeFile has not completed
  queueFile,            \* contents of QUEUE_FILE
  enqueueLog,           \* history: requests in the order askLLM pushed them
  launchLog,            \* history: requests in the order of their first launch
  requeues,             \* history: times each request was pushed back by .catch
  failedAttempts,       \* history: attempts of each request that threw
  ahead                 \* history: the requests that were queued when the request
                        \* was last pushed back and have not been launched since

VARIABLES
  rPhase,               \* "up", "down" (process exited) or "reloaded"
  rNow,                 \* Date.now() of the persistence round trip
  rRequestQueue,        \* requestQueue at shutdown (request objects)
  rConversationCache,   \* conversationCache at shutdown
  rQueueFile,           \* QUEUE_FILE: parsed JSON text or NoFile
  rCacheFile,           \* CACHE_FILE: parsed JSON text or NoFile
  rGarbled,             \* the files whose text is not JSON: "queue", "cache"
  rQueueAfter,          \* requestQueue after loadPersistedQueue
  rLaunchedAfter,       \* requests launched during loadPersistedQueue, in order
  rCacheAfter           \* conversationCache after loadConversationCache

VARIABLES
  now,                  \* Date.now() seen by checkRateLimit
  userRateLimits,       \* Map userId -> [timestamps, blockedUntil]
  lastCheck,            \* the call and return value of the last checkRateLimit
  lastAdmit,            \* history: time of each user's latest admitted request
  prevAdmit,            \* history: time of the admitted request before that one
  userCooldowns,        \* Map userId -> last admitted time, in insertion order
  admitLog              \* history: admitted times in the window of the latest admission

VARIABLES
  lastEvent             \* history: the request and upstream outcome of the attempt
                        \* that ended last (cleared by its .finally handler);
                        \* RecordingOff in the runs that keep no such history

VARIABLES
  callers,              \* the <<userId, channelId>> pairs askLLM is called with
  requestIds,           \* request.userId and request.channelId of each request
  conversationCache,    \* context key -> ConversationContext (NoContext: no entry)
  appendLog             \* history: every message appended to a context since it
                        \* was created

cacheVars == <<callers, requestIds, conversationCache, appendLog>>

VARIABLES
  phase,                \* the process: "running", inside a signal handler, or exited
  handlerCount,         \* activeRequests of index.ts: Map userId -> number
  running,              \* history: user -> handlers between their start and their end
  thrown,               \* history: what the last handleConcurrentRequest call threw
  shutdownPolls         \* 500 ms waits left before the shutdown timeout fires

processVars == <<phase, handlerCount, running, thrown, shutdownPolls>>

VARIABLES
  selRevision,          \* which revision of utils/context-selector.ts is called
  selQuery,             \* userQuery: the phrases it contains
  selResult             \* the ContextData returned, once the call has been made

selVars == <<selRevision, selQuery, selResult>>

VARIABLES
  requestTimestamps,    \* requestTimestamps of the askLLM that has no queue
  delayed               \* calls of that askLLM waiting in its 100 ms delay

directVars == <<requestTimestamps, delayed>>
reloadVars == <<rPhase, rNow, rRequestQueue, rConversationCache, rQueueFile,
                rCacheFile, rGarbled, rQueueAfter, rLaunchedAfter, rCacheAfter>>

rateVars == <<now, userRateLimits, lastCheck, lastAdmit, prevAdmit, userCooldowns,
              admitLog>>

dispatchVars == <<variant, submitted, requestQueue, retryCount, isProcessing,
                  activeGroqRequests, activeRequests, attempts, upstreamOpen,
                  finishing, settled, settleCount, totalRequests,
                  successfulRequests, failedRequests, pendingSaves, pendingWrites,
                  queueFile, enqueueLog, launchLog, requeues, failedAttempts, ahead,
                  lastEvent>>

vars == <<dispatchVars, reloadVars, rateVars, cacheVars, processVars, selVars, directVars>>

(* ----------------------------- helpers --------------------------------- *)
Range(s) == {s[i] : i \in 1..Len(s)}

Min(a, b) == IF a < b THEN a ELSE b

MaxConcurrent(v) ==
  IF v = "timeout" THEN MAX_CONCURRENT_REQUESTS ELSE MAX_CONCURRENT_GROQ_REQUESTS

\* Loop condition of processQueue: requestQueue.length > 0 && active < MAX
HasCapacityLe(v, queue, active) == Len(queue) > 0 /\ active <= MaxConcurrent(v)
HasCapacityStrict(v, queue, active) == Len(queue) > 0 /\ active < MaxConcurrent(v) - 1
HasCapacity(v, queue, active) == Len(queue) > 0 /\ active < MaxConcurrent(v)

\* request.retryCount < 3
CanRetryLe(rc) == rc <= MAX_RETRIES
CanRetry(rc) == rc < MAX_RETRIES

\* requestQueue.shift(): the request taken and the queue left
Pop(queue) == [req |-> queue[Len(queue)], rest |-> SubSeq(queue, 1, Len(queue) - 1)]
Peek(queue) == [req |-> Head(queue), rest |-> queue]
Shift(queue) == [req |-> Head(queue), rest |-> Tail(queue)]

\* failedRequests after the .catch handler: counted only when the request is rejected
FailedAfterCatchEach(n, retried) == n + 1
FailedAfterCatch(n, retried) == IF retried THEN n ELSE n + 1

\* requestQueue.push(request) in the .catch handler
RequeueLost(queue, q) == queue
RequeueHead(queue, q) == <<q>> \o queue
Requeue(queue, q) == Append(queue, q)

\* saveQueue is called only by the persistent revision
Saves(v, n) == IF v = "persist" THEN n ELSE 0

(* Outcomes of the upstream completion call.                               *)
UpstreamOutcomes ==
  {"content", "blank", "empty", "s413", "s429", "s401", "s403", "s503", "s500", "other",
   "otherCircular"}

(* processGroqRequest after the upstream call settled: "return" a string   *)
(* or "throw".  In the persistent revision the generic branch rethrows; in *)
(* the simple revision it returns a message.  JSON.stringify(error) throws *)
(* on an error object with circular references, in both.                   *)
processGroqRequestEmptyThrows(v, o) ==
  CASE o \in {"content", "blank"} -> "return"
    [] o = "empty" -> "throw"
    [] o \in {"s413", "s429", "s401", "s403", "s503"} -> "return"
    [] o = "otherCircular" -> "throw"
    [] o \in {"s500", "other"} -> IF v = "persist" THEN "throw" ELSE "return"
processGroqRequest(v, o) ==
  CASE o \in {"content", "blank", "empty"} -> "return"
    [] o \in {"s413", "s429", "s401", "s403", "s503"} -> "return"
    [] o = "otherCircular" -> "throw"
    [] o \in {"s500", "other"} -> IF v = "persist" THEN "throw" ELSE "return"

(* chatCompletion.choices[0]?.message?.content of a successful call, as a  *)
(* sequence of characters: some text, whitespace only, or nothing.         *)
ContentOf(o) ==
  CASE o = "content" -> <<" ", "a", " ">>
    [] o = "blank" -> <<" ", " ">>
    [] OTHER -> <<>>

\* String.prototype.trim(): whitespace at both ends is removed
RECURSIVE TrimStart(_)
TrimStart(str) ==
  IF Len(str) > 0 /\ Head(str) = " " THEN TrimStart(Tail(str)) ELSE str
RECURSIVE TrimEnd(_)
TrimEnd(str) ==
  IF Len(str) > 0 /\ str[Len(str)] = " "
  THEN TrimEnd(SubSeq(str, 1, Len(str) - 1)) ELSE str
Trim(str) == TrimEnd(TrimStart(str))

\* the string processGroqRequest returns (persist / simple revisions)
ResponseOf(v, o) ==
  CASE o \in {"content", "blank"} ->
         IF Trim(ContentOf(o)) = <<>> THEN "" ELSE "response.trim()"
    [] o = "empty" -> "Sorry, I could not generate a response. Please try again."
    [] o = "s413" -> "Sorry, your question is too complex. Please try asking in a simpler way or break it into smaller questions!"
    [] o = "s429" -> "Sorry, the AI service has reached its rate limit for today. Please try again later or contact hackoverflow@mes.ac.in for assistance."
    [] o = "s401" -> "AI service authentication failed. Please contact hackoverflow@mes.ac.in for assistance."
    [] o = "s403" -> "AI service access denied. Please contact hackoverflow@mes.ac.in for assistance."
    [] o = "s503" -> "The AI service is temporarily unavailable. Please try again in a moment."
    [] OTHER -> IF processGroqRequest(v, o) = "return"
                THEN "Sorry, I encountered an error: Unknown error. Please contact hackoverflow@mes.ac.in for assistance."
                ELSE "thrown"

(* executeGroqRequest (timeout revision): an empty response and every      *)
(* upstream error throw.                                                   *)
executeGroqRequest(o) == IF o \in {"content", "blank"} THEN "return" ELSE "throw"

(* The reject wrapper of askLLM (timeout revision): the message the caller *)
(* is resolved with, chosen by the text of the error.                      *)
RejectWrapper(o) ==
  CASE o = "timeout" -> "The request took too long. Please try again."
    [] o = "s429" -> "Too many requests. Please wait a moment and try again."
    [] o = "s401" -> "AI service configuration error. Please contact hackoverflow@mes.ac.in"
    [] OTHER -> "The AI service is temporarily unavailable. Please try again in a moment."

(* The string the caller of the timeout revision is resolved with: what    *)
(* executeGroqRequest returns, or the message of the reject wrapper.       *)
ResponseOfT(o) ==
  IF o = "timeout" \/ executeGroqRequest(o) = "throw"
  THEN RejectWrapper(o)
  ELSE IF Trim(ContentOf(o)) = <<>> THEN "" ELSE "response.trim()"

(* The catch block of the messageCreate handler: the reply sent when       *)
(* askLLM rejects.                                                         *)
MessageCreateCatch ==
  "Sorry, I encountered an error. Please try again or contact hackoverflow@mes.ac.in for assistance!"

(* The text the user is sent for a settled request: the string askLLM      *)
(* resolved with, or the reply of the catch block when it rejected.        *)
ReplyText(v, o, outcome) ==
  IF v = "timeout" THEN ResponseOfT(o)
  ELSE IF outcome = "rejected" THEN MessageCreateCatch
  ELSE ResponseOf(v, o)

\* the messages above that contain the contact address hackoverflow@mes.ac.in
IncludesContact(text) ==
  text \in { ResponseOf("simple", "s429"), ResponseOf("simple", "s401"),
             ResponseOf("simple", "s403"), ResponseOf("simple", "other"),
             RejectWrapper("s401"), MessageCreateCatch }

(* ------------------------- conversation cache -------------------------- *)
\* askLLM(userQuery) without userId and channelId
Anonymous == <<"", "">>
\* the callers of the runs of the conversation cache: two users in one
\* channel, and a call that passes a userId and no channelId
IdSamples == {<<"u1", "c1">>, <<"u2", "c1">>, <<"u1", "">>}
\* getContextKey(userId, channelId)
getContextKey(userId, channelId) == <<userId, channelId>>
ContextKeys == {getContextKey(id[1], id[2]) : id \in {x \in IdSamples : x[1] # "" /\ x[2] # ""}}
\* conversationCache.get(key) of a key that has no entry
NoContext == [messages |-> <<>>, lastActivity |-> -1]
\* request.userId && request.channelId
HasIds(id) == id[1] # "" /\ id[2] # ""

\* array.slice(-n): the last n elements, all of them when there are fewer
SliceLast(seq, n) ==
  IF Len(seq) <= n THEN seq ELSE SubSeq(seq, Len(seq) - n + 1, Len(seq))

\* getConversationContext: the entry of the key, created empty when absent
getConversationContext(cache, userId, channelId, t) ==
  LET key == getContextKey(userId, channelId) IN
  IF cache[key] = NoContext THEN [messages |-> <<>>, lastActivity |-> t]
                            ELSE cache[key]

\* addToConversation without the cut to the last messages
KeepAll(messages) == messages
\* addToConversation that keeps one message less
KeepLastButOne(messages) ==
  IF Len(messages) > MAX_CONVERSATION_LENGTH - 1
  THEN SliceLast(messages, MAX_CONVERSATION_LENGTH - 1) ELSE messages
\* addToConversation: keep only the last MAX_CONVERSATION_LENGTH messages
KeepLast(messages) ==
  IF Len(messages) > MAX_CONVERSATION_LENGTH
  THEN SliceLast(messages, MAX_CONVERSATION_LENGTH) ELSE messages

\* addToConversation(userId, channelId, role, content) at Date.now() = t
addToConversation(cache, userId, channelId, role, content, t) ==
  LET context == getConversationContext(cache, userId, channelId, t)
      pushed == Append(context.messages,
                       [role |-> role, content |-> content, timestamp |-> t])
  IN [cache EXCEPT ![getContextKey(userId, channelId)] =
        [messages |-> KeepLast(pushed), lastActivity |-> t]]

\* buildConversationHistory that returns every stored message
buildConversationHistoryAll(cache, userId, channelId) ==
  LET context == cache[getContextKey(userId, channelId)] IN
  [i \in 1..Len(context.messages) |->
     [role |-> context.messages[i].role, content |-> context.messages[i].content]]
\* buildConversationHistory: role and content of the last 6 messages
buildConversationHistory(cache, userId, channelId) ==
  LET context == cache[getContextKey(userId, channelId)]
      recent == SliceLast(context.messages, HISTORY_LENGTH)
  IN IF context = NoContext \/ Len(context.messages) = 0 THEN <<>>
     ELSE [i \in 1..Len(recent) |->
             [role |-> recent[i].role, content |-> recent[i].content]]

\* cleanupCache that also deletes a context exactly CACHE_TIMEOUT old
cleanupCacheEager(cache, t) ==
  [key \in DOMAIN cache |->
     IF cache[key] # NoContext /\ t - cache[key].lastActivity >= CACHE_TIMEOUT
     THEN NoContext ELSE cache[key]]
\* cleanupCache: delete every context with now - lastActivity > CACHE_TIMEOUT
cleanupCache(cache, t) ==
  [key \in DOMAIN cache |->
     IF cache[key] # NoContext /\ t - cache[key].lastActivity > CACHE_TIMEOUT
     THEN NoContext ELSE cache[key]]

\* the .then handler's update of the cache for a request with both ids
CacheAfterThen(cache, id, query, response, t) ==
  IF HasIds(id)
  THEN addToConversation(addToConversation(cache, id[1], id[2], "user", query, t),
                         id[1], id[2], "assistant", response, t)
  ELSE cache

\* the two messages the .then handler passes to addToConversation
Exchange(q, response, t) ==
  << [role |-> "user", content |-> [of |-> q, text |-> "userQuery"], timestamp |-> t],
     [role |-> "assistant", content |-> [of |-> q, text |-> response], timestamp |-> t] >>

(* The while loop of processQueue (persist / simple): s is the record      *)
(* [queue, active, launched, saves] of the loop's running state.           *)
RECURSIVE PumpLoop(_, _)
PumpLoop(v, s) ==
  IF HasCapacity(v, s.queue, s.active)
  THEN PumpLoop(v, [queue    |-> Shift(s.queue).rest,
                    active   |-> s.active + 1,
                    launched |-> Append(s.launched, Shift(s.queue).req),
                    saves    |-> s.saves + Saves(v, 1)])
  ELSE s

\* processQueue(): early return when isProcessing or the queue is empty
processQueue(v, queue, active, saves) ==
  LET s0 == [queue |-> queue, active |-> active, launched |-> <<>>, saves |-> saves]
  IN IF isProcessing \/ Len(queue) = 0 THEN s0 ELSE PumpLoop(v, s0)

(* One processQueue() call of the timeout revision: the loop body awaits   *)
(* the attempt it launched, so one call launches at most one request       *)
(* before it suspends.                                                     *)
processQueueT(s) ==
  IF HasCapacity("timeout", s.queue, s.active)
  THEN [queue    |-> Shift(s.queue).rest,
        active   |-> s.active + 1,
        launched |-> Append(s.launched, Shift(s.queue).req),
        saves    |-> s.saves]
  ELSE s

(* The requests that stand before each request after the launches of one  *)
(* pump: a waiting request is no longer behind the requests launched, a    *)
(* launched one keeps those that were not launched before it.              *)
AheadAfter(before, launched) ==
  [q \in Queries |->
     IF \E i \in 1..Len(launched) : launched[i] = q
     THEN LET i == CHOOSE i \in 1..Len(launched) : launched[i] = q
          IN before[q] \ {launched[j] : j \in 1..(i - 1)}
     ELSE IF q \in attempts THEN before[q]
     ELSE before[q] \ Range(launched)]

\* launchLog extended by the first launches among `launched`
LogFirst(log, launched) ==
  LET firsts == SelectSeq(launched, LAMBDA q : q \notin Range(log)) IN log \o firsts

(* ------------------------------- Init ---------------------------------- *)
\* no attempt has ended, or the .finally handler of the last one has run
NoEvent == [q |-> 0, outcome |-> "none"]
\* the history of ended attempts is not kept in this run
RecordingOff == [q |-> 0, outcome |-> "off"]
\* lastEvent after an attempt of request q ended with upstream outcome o
Record(q, o) == IF lastEvent = RecordingOff THEN lastEvent ELSE [q |-> q, outcome |-> o]

DispatchInit ==
  /\ submitted = 0
  /\ requestQueue = <<>>
  /\ retryCount = [q \in Queries |-> 0]
  /\ isProcessing = FALSE
  /\ activeGroqRequests = 0
  /\ activeRequests = 0
  /\ attempts = {}
  /\ upstreamOpen = {}
  /\ finishing = {}
  /\ settled = [q \in Queries |-> "none"]
  /\ settleCount = [q \in Queries |-> 0]
  /\ totalRequests = 0
  /\ successfulRequests = 0
  /\ failedRequests = 0
  /\ pendingSaves = 0
  /\ pendingWrites = {}
  /\ queueFile = NoFile
  /\ enqueueLog = <<>>
  /\ launchLog = <<>>
  /\ requeues = [q \in Queries |-> 0]
  /\ failedAttempts = [q \in Queries |-> 0]
  /\ ahead = [q \in Queries |-> {}]
  /\ requestIds = [q \in Queries |-> Anonymous]
  /\ conversationCache = [key \in ContextKeys |-> NoContext]
  /\ appendLog = [key \in ContextKeys |-> <<>>]
  /\ phase = "running"
  /\ handlerCount = [u \in {} |-> 0]
  /\ running = [u \in Users |-> 0]
  /\ thrown = "none"
  /\ shutdownPolls = 0
  /\ requestTimestamps = <<>>
  /\ delayed = 0

\* every call of askLLM passes the query only
NoIds == callers = {Anonymous}
\* the calls of askLLM pass the ids of the message they answer
WithIds == callers = IdSamples

\* no persistence round trip in progress
ReloadOff ==
  /\ rPhase = "off"
  /\ rNow = 0
  /\ rRequestQueue = <<>>
  /\ rConversationCache = <<>>
  /\ rQueueFile = NoFile
  /\ rCacheFile = NoFile
  /\ rGarbled = {}
  /\ rQueueAfter = <<>>
  /\ rLaunchedAfter = <<>>
  /\ rCacheAfter = <<>>

\* the rate limiter before its first call
RateStart ==
  /\ now = 1
  /\ userRateLimits = <<>>
  /\ lastCheck = [user |-> 0, allowed |-> TRUE, waitTime |-> 0]
  /\ lastAdmit = [u \in Users |-> 0]
  /\ prevAdmit = [u \in Users |-> 0]
  /\ userCooldowns = <<>>
  /\ admitLog = [u \in Users |-> <<>>]

\* whether the run records the upstream outcome of each ended attempt
NotRecording == lastEvent = RecordingOff
RecordingOn == lastEvent = NoEvent
(* --------------------------- context selector -------------------------- *)
\* the revisions of utils/context-selector.ts: the current one, which takes
\* the names from the data file, the one with the names written out, the one
\* without a check of names, and the one that matches regular expressions
SelectorRevisions == {"dynamic", "hardcoded", "plain", "flexible"}

\* the phrases a query of these runs is made of
Phrases == {"who is", "explain", "what is", "prize", "statistic", "hackathon",
            "nirav", "fee", "hello"}

\* the keywords of the source that are substrings of a phrase
Substrings(phrase) ==
  CASE phrase = "who is" -> {"who is", "who"}
    [] phrase = "hello" -> {}
    [] OTHER -> {phrase}

\* query.includes(keyword)
Includes(query, keyword) == \E phrase \in query : keyword \in Substrings(phrase)

\* ALL_TEAM_NAMES / teamMemberNames: the names the revision looks for
TeamNames(rev) ==
  CASE rev = "dynamic" -> {"nirav"}
    [] rev = "hardcoded" ->
         {"nirav", "darin", "sampriti", "dongra", "peringalloor", "rutvij", "mane",
          "rajashree", "gadhave", "pradnya", "patil", "parth bhoir", "chetan jadhav",
          "rohan gharat", "aarya karpe", "ashutosh chavan", "aayush gunjal",
          "midhun mohandas", "richa shrungarpure", "vedanti patil", "sharayu patil",
          "saksham tiwari", "advait patil", "hemant", "sanket", "karan", "anish",
          "aditi", "sanika", "mansi", "kunal", "smit", "paras", "rohit", "tejas",
          "shravani", "niyati", "shreyash", "arya", "sharwari", "aaditya", "ayush",
          "rajdeep", "kalyani", "rakesh", "abhinav", "sujay", "bhushan", "shardul",
          "pratik", "prachiti", "bhoomi", "pranjal", "sanskruti", "dhanashree",
          "aditya dange", "chaitanya", "roshan", "shreya", "sanskar"}
    [] OTHER -> {}

mentionsTeamMember(rev, query) == \E name \in TeamNames(rev) : Includes(query, name)

gkIndicators(rev) ==
  {"what is", "who is", "who was", "explain", "define", "how does", "why does",
   "tell me about", "what are the benefits of", "difference between", "compare",
   "how to learn", "what does", "history of", "meaning of"}
  \cup (IF rev = "plain" THEN {} ELSE {"tutorial", "example of"})

hackathonIndicators(rev) ==
  {"hackoverflow", "phcet", "register", "prize", "schedule", "event", "hackathon",
   "organizer", "when is", "where is", "how to join", "deadline", "team size",
   "eligibility", "accommodation", "food"}
  \cup (IF rev = "plain" THEN {}
        ELSE {"pillai", "coordinator", "lead", "head", "mentor", "faculty", "rasayani",
              "venue", "location", "campus"})

\* the groups with the statistics group tested before the prizes group
StatisticsFirst ==
  <<"schedule", "registration", "team", "statistics", "prizes", "facilities", "faqs",
    "perks", "about", "theme", "communities">>

\* the keyword groups in the order the function tests them
GroupOrder ==
  <<"schedule", "registration", "team", "prizes", "facilities", "statistics", "faqs",
    "perks", "about", "theme", "communities">>

\* the keywords of a group
GroupKeywords(rev, group) ==
  IF rev = "flexible" THEN
    CASE group = "schedule" ->
           {"schedule", "timing", "time", "when", "event", "program", "agenda"}
           \cup {"day 0", "day 1", "day 2", "day 3", "day 4", "day 5", "day 6", "day 7",
                 "day 8", "day 9"}
      [] group = "registration" ->
           {"register", "registration", "sign up", "join", "enroll", "fee", "cost",
            "price", "participate"}
      [] group = "team" ->
           {"team", "organizer", "coordinator", "lead", "faculty", "head", "who",
            "contact", "organize"}
      [] group = "prizes" ->
           {"prize", "win", "reward", "money", "cash", "award", "incentive"}
      [] group = "facilities" ->
           {"food", "meal", "eat", "lunch", "dinner", "breakfast", "accommodation",
            "stay", "sleep", "transport", "bus", "travel", "facility", "amenities"}
      [] group = "statistics" ->
           {"statistic", "stats", "how many", "number", "participant", "previous",
            "last year", "edition"}
      [] group = "faqs" ->
           {"faq", "question", "beginner", "can i", "allowed", "eligible", "requirement"}
      [] group = "perks" ->
           {"perk", "benefit", "goodies", "swag", "certificate", "gift", "get", "receive"}
      [] group = "about" ->
           {"about", "why", "what is", "tell me", "phcet", "college", "know more",
            "details"}
      [] group = "theme" ->
           {"theme", "topic", "domain", "category", "project", "build", "idea"}
      [] OTHER -> {"club", "community", "gdg", "csi", "cybersecurity", "group"}
  ELSE
    CASE group = "schedule" ->
           {"schedule", "timing", "time", "day 1", "day 2", "day 3", "when"}
           \cup (IF rev = "plain" THEN {} ELSE {"agenda", "itinerary"})
      [] group = "registration" ->
           {"register", "registration", "sign up", "how to join", "fee", "cost",
            "eligibility"}
           \cup (IF rev = "plain" THEN {} ELSE {"apply", "deadline"})
      [] group = "team" ->
           {"team", "organizer", "coordinator", "lead", "faculty", "head"}
           \cup (CASE rev = "plain" -> {"who"}
                   [] rev = "hardcoded" -> {"mentor", "who", "member", "contact person"}
                   [] OTHER -> {"mentor", "who is", "who are", "member", "contact person",
                                "role of", "position of", "phone", "number", "call",
                                "reach"})
      [] group = "prizes" ->
           {"prize", "win", "reward", "money", "cash"}
           \cup (IF rev = "plain" THEN {} ELSE {"award", "incentive"})
      [] group = "facilities" ->
           {"food", "meal", "accommodation", "stay", "transport", "bus", "facility",
            "amenities"}
           \cup (IF rev = "plain" THEN {} ELSE {"breakfast", "lunch", "dinner", "lodging"})
      [] group = "statistics" ->
           {"statistic", "stats", "how many", "participant", "previous", "last year"}
           \cup (IF rev = "plain" THEN {} ELSE {"hackoverflow 3", "past edition"})
      [] group = "faqs" ->
           {"faq", "question", "beginner", "can i"}
           \cup (IF rev = "plain" THEN {} ELSE {"am i eligible", "requirements"})
      [] group = "perks" ->
           {"perk", "benefit", "goodies", "swag", "certificate", "gift"}
           \cup (IF rev = "plain" THEN {} ELSE {"what do i get"})
      [] group = "about" ->
           {"about", "why", "what is", "phcet", "college"}
           \cup (IF rev = "plain" THEN {}
                 ELSE {"pillai", "rasayani", "background", "history"})
      [] group = "theme" ->
           {"theme", "topic", "domain", "category"}
           \cup (IF rev = "plain" THEN {} ELSE {"project type", "problem statement"})
      [] OTHER ->
           {"club", "community", "gdg", "csi", "cybersecurity"}
           \cup (IF rev = "plain" THEN {} ELSE {"geeksforgeeks", "developer group"})

\* the condition of the if statement of a group
GroupHit(rev, group, query) ==
  \/ \E keyword \in GroupKeywords(rev, group) : Includes(query, keyword)
  \/ group = "team" /\ rev \in {"dynamic", "hardcoded"} /\ mentionsTeamMember(rev, query)

\* the assignments to relevantInfo in the body of a group: <<key, value>>
GroupData(rev, group) ==
  CASE group = "schedule" -> << <<"schedule", "schedule">> >>
    [] group = "registration" ->
         << <<"registration", "registration">>, <<"dates", "dates">> >>
    [] group = "team" ->
         IF rev = "hardcoded" THEN << <<"team", "team">> >>
         ELSE << <<"team", "team">>, <<"team_members", "team_members">> >>
    [] group = "prizes" ->
         << <<"prizes", "prizes">>, <<"statistics", "statistics.prize_pool">> >>
    [] group = "facilities" -> << <<"facilities", "facilities">> >>
    [] group = "statistics" -> << <<"statistics", "statistics">> >>
    [] group = "faqs" -> << <<"faqs", "faqs">> >>
    [] group = "perks" -> << <<"perks", "perks">> >>
    [] group = "about" ->
         << <<"about", "about">>, <<"why_hackoverflow", "why_hackoverflow">> >>
    [] group = "theme" ->
         << <<"theme", "theme">>, <<"project_categories", "project_categories">> >>
    [] OTHER -> << <<"developer_communities", "developer_communities">> >>

InfoKeys ==
  {"basic", "schedule", "registration", "dates", "team", "team_members", "prizes",
   "statistics", "facilities", "faqs", "perks", "about", "why_hackoverflow", "theme",
   "project_categories", "developer_communities", "overview", "registration_summary"}

\* const relevantInfo: any = {}
EmptyInfo == [key \in InfoKeys |-> Undefined]

\* relevantInfo.key = value, for each assignment in turn
RECURSIVE Assign(_, _)
Assign(info, assignments) ==
  IF assignments = <<>> THEN info
  ELSE Assign([info EXCEPT ![Head(assignments)[1]] = Head(assignments)[2]],
              Tail(assignments))

\* the if statements of the groups from the i-th on, applied to the record
\* [relevantInfo, detectedTopics]
RECURSIVE ApplyGroups(_, _, _, _)
ApplyGroups(rev, query, i, acc) ==
  IF i > Len(GroupOrder) THEN acc
  ELSE LET group == GroupOrder[i] IN
       ApplyGroups(rev, query, i + 1,
         IF GroupHit(rev, group, query)
         THEN [relevantInfo |-> Assign(acc.relevantInfo, GroupData(rev, group)),
               detectedTopics |-> Append(acc.detectedTopics, group)]
         ELSE acc)

\* the block after the groups: the overview and the topic 'general'
Overview(rev, acc) ==
  LET n == Len(acc.detectedTopics) IN
  IF rev = "flexible"
  THEN IF n = 0
       THEN [relevantInfo |->
               Assign(acc.relevantInfo,
                      << <<"overview", "overview">>,
                         <<"registration_summary", "registration_summary">> >>),
             detectedTopics |-> <<"general">>]
       ELSE IF n = 1
       THEN [acc EXCEPT !.relevantInfo = Assign(@, << <<"overview", "overview">> >>)]
       ELSE acc
  ELSE IF n = 0
       THEN [relevantInfo |-> Assign(acc.relevantInfo, << <<"overview", "overview">> >>),
             detectedTopics |-> <<"general">>]
       ELSE acc

\* selectRelevantContext(userQuery); the flexible revision returns no
\* isGeneralKnowledge, which reads as false
selectRelevantContext(rev, query) ==
  LET hasGkIndicator == \E indicator \in gkIndicators(rev) : Includes(query, indicator)
      hasHackathonIndicator ==
        \E indicator \in hackathonIndicators(rev) : Includes(query, indicator)
      isGk == CASE rev = "flexible" -> FALSE
                [] rev = "plain" -> hasGkIndicator /\ ~hasHackathonIndicator
                [] OTHER -> /\ hasGkIndicator /\ ~hasHackathonIndicator
                            /\ ~mentionsTeamMember(rev, query)
      start == [relevantInfo |-> Assign(EmptyInfo, << <<"basic", "basic">> >>),
                detectedTopics |-> <<>>]
      done == Overview(rev, ApplyGroups(rev, query, 1, start))
  IN IF isGk
     THEN [relevantInfo |-> Assign(EmptyInfo, << <<"basic", "name, contact">> >>),
           detectedTopics |-> <<"general_knowledge">>,
           isGeneralKnowledge |-> TRUE, called |-> TRUE]
     ELSE [relevantInfo |-> done.relevantInfo, detectedTopics |-> done.detectedTopics,
           isGeneralKnowledge |-> FALSE, called |-> TRUE]

\* no call of selectRelevantContext has returned
NoResult ==
  [relevantInfo |-> EmptyInfo, detectedTopics |-> <<>>, isGeneralKnowledge |-> FALSE,
   called |-> FALSE]

\* the dispatcher runs do not look at the selector
SelectorOff == selRevision = "dynamic" /\ selQuery = {} /\ selResult = NoResult

\* a call of selectRelevantContext returns
Select ==
  /\ ~selResult.called
  /\ selResult' = selectRelevantContext(selRevision, selQuery)
  /\ UNCHANGED <<selRevision, selQuery, dispatchVars, reloadVars, rateVars, cacheVars,
                 processVars, directVars>>

\* the next query arrives
NextQuery ==
  /\ selResult.called
  /\ selQuery' \in SUBSET Phrases
  /\ selResult' = NoResult
  /\ UNCHANGED <<selRevision, dispatchVars, reloadVars, rateVars, cacheVars, processVars,
                 directVars>>

Init ==
  /\ variant \in Variants
  /\ DispatchInit
  /\ NotRecording
  /\ NoIds /\ SelectorOff
  /\ ReloadOff
  /\ RateStart

(* ---------------- persist / simple revisions: handlers ----------------- *)
\* State changes shared by every handler that ends in processQueue().
Pumped(s) ==
  /\ requestQueue' = s.queue
  /\ activeGroqRequests' = s.active
  /\ attempts' = attempts \cup Range(s.launched)
  /\ upstreamOpen' = upstreamOpen \cup Range(s.launched)
  /\ totalRequests' = totalRequests + Len(s.launched)
  /\ launchLog' = LogFirst(launchLog, s.launched)
  /\ ahead' = AheadAfter(ahead, s.launched)
  /\ pendingSaves' = s.saves
  /\ isProcessing' = FALSE

(* askLLM: push, saveQueue(), processQueue().  It runs as a macrotask, or  *)
(* in the continuation of a caller whose promise the .then/.catch handler  *)
(* has just settled, before the .finally reaction of that chain.           *)
AskLLM ==
  /\ variant \in {"persist", "simple"}
  /\ \A f \in finishing : settled[f] # "none"
  /\ submitted < NumQueries
  /\ LET q == submitted + 1
         s == processQueue(variant, Append(requestQueue, q), activeGroqRequests,
                           pendingSaves + Saves(variant, 1))
     IN /\ Pumped(s)
        /\ submitted' = q
        /\ enqueueLog' = Append(enqueueLog, q)
        /\ \E id \in callers : requestIds' = [requestIds EXCEPT ![q] = id]
  /\ UNCHANGED <<directVars, selVars, processVars, reloadVars, rateVars, callers, conversationCache, appendLog>>
  /\ UNCHANGED <<variant, retryCount, activeRequests, finishing, settled, settleCount,
                 successfulRequests, failedRequests, pendingWrites, queueFile,
                 requeues, failedAttempts, lastEvent>>

\* processGroqRequest returned: the .then handler
ThenHandler(q) ==
  /\ variant \in {"persist", "simple"}
  /\ finishing = {}
  /\ q \in attempts
  /\ \E o \in UpstreamOutcomes :
       /\ processGroqRequest(variant, o) = "return"
       /\ lastEvent' = Record(q, o)
       /\ IF variant = "persist" /\ HasIds(requestIds[q])
          THEN /\ conversationCache' =
                    CacheAfterThen(conversationCache, requestIds[q],
                                   [of |-> q, text |-> "userQuery"],
                                   [of |-> q, text |-> ResponseOf(variant, o)], now)
               /\ appendLog' =
                    [appendLog EXCEPT ![getContextKey(requestIds[q][1], requestIds[q][2])] =
                       @ \o Exchange(q, ResponseOf(variant, o), now)]
          ELSE UNCHANGED <<conversationCache, appendLog>>
  /\ settled' = [settled EXCEPT ![q] = IF @ = "none" THEN "resolved" ELSE @]
  /\ settleCount' = [settleCount EXCEPT ![q] = @ + 1]
  /\ successfulRequests' = successfulRequests + 1
  /\ attempts' = attempts \ {q}
  /\ upstreamOpen' = upstreamOpen \ {q}
  /\ finishing' = {q}
  /\ UNCHANGED <<directVars, selVars, processVars, reloadVars, rateVars, callers, requestIds>>
  /\ UNCHANGED <<variant, submitted, requestQueue, retryCount, isProcessing,
                 activeGroqRequests, activeRequests, totalRequests, failedRequests,
                 pendingSaves, pendingWrites, queueFile, enqueueLog, launchLog, requeues,
                 failedAttempts, ahead>>

\* processGroqRequest threw: the .catch handler
CatchHandler(q) ==
  /\ variant \in {"persist", "simple"}
  /\ finishing = {}
  /\ q \in attempts
  /\ \E o \in UpstreamOutcomes :
       processGroqRequest(variant, o) = "throw" /\ lastEvent' = Record(q, o)
  /\ IF variant = "persist" /\ CanRetry(retryCount[q])
     THEN /\ retryCount' = [retryCount EXCEPT ![q] = @ + 1]
          /\ requestQueue' = Requeue(requestQueue, q)
          /\ requeues' = [requeues EXCEPT ![q] = @ + 1]
          /\ UNCHANGED <<settled, settleCount>>
     ELSE /\ settled' = [settled EXCEPT ![q] = IF @ = "none" THEN "rejected" ELSE @]
          /\ settleCount' = [settleCount EXCEPT ![q] = @ + 1]
          /\ UNCHANGED <<retryCount, requestQueue, requeues>>
  /\ failedRequests' =
       FailedAfterCatch(failedRequests, variant = "persist" /\ CanRetry(retryCount[q]))
  /\ failedAttempts' = [failedAttempts EXCEPT ![q] = @ + 1]
  /\ ahead' = IF variant = "persist" /\ CanRetry(retryCount[q])
              THEN [ahead EXCEPT ![q] = Range(requestQueue)]
              ELSE ahead
  /\ attempts' = attempts \ {q}
  /\ upstreamOpen' = upstreamOpen \ {q}
  /\ finishing' = {q}
  /\ UNCHANGED <<reloadVars, rateVars, cacheVars, processVars, selVars, directVars>>
  /\ UNCHANGED <<variant, submitted, isProcessing, activeGroqRequests, activeRequests,
                 totalRequests, successfulRequests, pendingSaves, pendingWrites,
                 queueFile, enqueueLog, launchLog>>

\* activeGroqRequests-- in the .finally handler
FinishedTwice(active) == active - 2
Finished(active) == active - 1

\* the .finally handler: activeGroqRequests--, saveQueue(), processQueue()
FinallyHandler ==
  /\ variant \in {"persist", "simple"}
  /\ finishing # {}
  /\ LET s == processQueue(variant, requestQueue, Finished(activeGroqRequests),
                           pendingSaves + Saves(variant, 1))
     IN Pumped(s)
  /\ finishing' = {}
  /\ lastEvent' = Record(NoEvent.q, NoEvent.outcome)   \* the attempt is over
  /\ UNCHANGED <<reloadVars, rateVars, cacheVars, processVars, selVars, directVars>>
  /\ UNCHANGED <<variant, submitted, enqueueLog, retryCount, activeRequests, settled, settleCount,
                 successfulRequests, failedRequests, pendingWrites, queueFile,
                 requeues, failedAttempts>>

(* saveQueue after `await ensureDataDir()`: the snapshot is taken from     *)
(* requestQueue as it is now, then writeFile starts.                       *)
SaveCapture ==
  /\ finishing = {}
  /\ pendingSaves > 0
  /\ pendingSaves' = pendingSaves - 1
  /\ pendingWrites' = pendingWrites \cup {requestQueue}
  /\ UNCHANGED <<reloadVars, rateVars, cacheVars, processVars, selVars, directVars>>
  /\ UNCHANGED <<variant, submitted, requestQueue, retryCount, isProcessing,
                 activeGroqRequests, activeRequests, attempts, upstreamOpen, finishing,
                 settled, settleCount, totalRequests, successfulRequests,
                 failedRequests, queueFile, enqueueLog, launchLog, requeues, failedAttempts, ahead,
                 lastEvent>>

\* fs.writeFile completes: the file holds this call's snapshot
SaveWrite(snap) ==
  /\ finishing = {}
  /\ snap \in pendingWrites
  /\ pendingWrites' = pendingWrites \ {snap}
  /\ queueFile' = File(snap)
  /\ UNCHANGED <<reloadVars, rateVars, cacheVars, processVars, selVars, directVars>>
  /\ UNCHANGED <<variant, submitted, requestQueue, retryCount, isProcessing,
                 activeGroqRequests, activeRequests, attempts, upstreamOpen, finishing,
                 settled, settleCount, totalRequests, successfulRequests,
                 failedRequests, pendingSaves, enqueueLog, launchLog, requeues, failedAttempts, ahead,
                 lastEvent>>

(* ------------------------- timeout revision ---------------------------- *)
\* State changes shared by the handlers of the timeout revision.
PumpedT(s) ==
  /\ requestQueue' = s.queue
  /\ activeRequests' = s.active
  /\ attempts' = (attempts \cup Range(s.launched))
  /\ upstreamOpen' = upstreamOpen \cup Range(s.launched)
  /\ launchLog' = LogFirst(launchLog, s.launched)

(* askLLM (called without userId, so that the cooldown check is skipped):  *)
(* a full queue returns the busy message, otherwise push and processQueue. *)
AskLLMT ==
  /\ variant = "timeout"
  /\ submitted < NumQueriesT
  /\ LET q == submitted + 1 IN
     /\ submitted' = q
     /\ IF Len(requestQueue) >= MAX_QUEUE_LENGTH
        THEN /\ settled' = [settled EXCEPT ![q] = "resolved"]
             /\ settleCount' = [settleCount EXCEPT ![q] = @ + 1]
             /\ UNCHANGED <<requestQueue, activeRequests, attempts, upstreamOpen,
                            enqueueLog, launchLog>>
        ELSE /\ PumpedT(processQueueT([queue |-> Append(requestQueue, q),
                                       active |-> activeRequests,
                                       launched |-> <<>>, saves |-> 0]))
             /\ enqueueLog' = Append(enqueueLog, q)
             /\ UNCHANGED <<settled, settleCount>>
  /\ UNCHANGED <<reloadVars, rateVars, cacheVars, processVars, selVars, directVars>>
  /\ UNCHANGED <<variant, retryCount, isProcessing, activeGroqRequests, finishing,
                 totalRequests, successfulRequests, failedRequests, pendingSaves,
                 pendingWrites, queueFile, requeues, failedAttempts, ahead, lastEvent>>

(* Promise.race settled for request q: resolve or reject (the wrapper      *)
(* resolves the caller with a message), then finally: activeRequests--,    *)
(* processQueue(), and the suspended loop of this pump goes round again.   *)
RaceSettled(q, stillOpen) ==
  /\ variant = "timeout"
  /\ q \in attempts
  /\ settled' = [settled EXCEPT ![q] = IF @ = "none" THEN "resolved" ELSE @]
  /\ settleCount' = [settleCount EXCEPT ![q] = @ + 1]
  /\ LET s0 == [queue |-> requestQueue, active |-> activeRequests - 1,
                launched |-> <<>>, saves |-> 0]
         s2 == processQueueT(processQueueT(s0))
     IN /\ requestQueue' = s2.queue
        /\ activeRequests' = s2.active
        /\ attempts' = (attempts \ {q}) \cup Range(s2.launched)
        /\ upstreamOpen' = (IF stillOpen THEN upstreamOpen ELSE upstreamOpen \ {q})
                             \cup Range(s2.launched)
        /\ launchLog' = LogFirst(launchLog, s2.launched)
  /\ UNCHANGED <<reloadVars, rateVars, cacheVars, processVars, selVars, directVars>>
  /\ UNCHANGED <<variant, submitted, enqueueLog, retryCount, isProcessing, activeGroqRequests,
                 finishing, totalRequests, successfulRequests, failedRequests,
                 pendingSaves, pendingWrites, queueFile, requeues, failedAttempts, ahead>>

\* executeGroqRequest returned or threw before the timer fired
UpstreamSettledT(q) ==
  /\ \E o \in UpstreamOutcomes :
       executeGroqRequest(o) \in {"return", "throw"} /\ lastEvent' = Record(q, o)
  /\ RaceSettled(q, FALSE)

\* the REQUEST_TIMEOUT_MS timer fired first; the upstream call goes on
TimeoutT(q) == RaceSettled(q, TRUE) /\ lastEvent' = Record(q, "timeout")

(* settleCount after requestPromise settles when Promise.race has already  *)
(* settled with the timeout: the race ignores it, and the try block that   *)
(* calls request.resolve or request.reject has been left.                  *)
LateResultSettles(count, q) == [count EXCEPT ![q] = @ + 1]
LateResult(count, q) == count

\* the upstream call of a request already settled by the timeout returns
LateReturnT(q) ==
  /\ variant = "timeout"
  /\ q \in upstreamOpen \ attempts
  /\ upstreamOpen' = upstreamOpen \ {q}
  /\ settleCount' = LateResult(settleCount, q)
  /\ UNCHANGED <<reloadVars, rateVars, cacheVars, processVars, selVars, directVars>>
  /\ UNCHANGED <<variant, submitted, requestQueue, retryCount, isProcessing,
                 activeGroqRequests, activeRequests, attempts, finishing, settled,
                 totalRequests, successfulRequests, failedRequests,
                 pendingSaves, pendingWrites, queueFile, enqueueLog, launchLog, requeues,
                 failedAttempts, ahead, lastEvent>>

(* ---------------------- rate limiter (checkRateLimit) ------------------ *)
\* Math.ceil(a / b)
CeilDiv(a, b) == -((-a) \div b)

SeqMin(s) == CHOOSE x \in Range(s) : \A y \in Range(s) : x <= y
SeqMax(s) == CHOOSE x \in Range(s) : \A y \in Range(s) : x >= y

\* userRateLimits.get(userId) || { timestamps: [] }
GetUserLimit(limits, u) ==
  IF u \in DOMAIN limits THEN limits[u] ELSE [timestamps |-> <<>>, blockedUntil |-> 0]

\* userRateLimits.set(userId, userLimit)
SetUserLimit(limits, u, rec) ==
  [x \in DOMAIN limits \cup {u} |-> IF x = u THEN rec ELSE limits[x]]

\* userLimit.blockedUntil && now < userLimit.blockedUntil
IsBlocked(rec, t) == rec.blockedUntil # 0 /\ t < rec.blockedUntil

\* timestamps.filter(ts => now - ts < RATE_LIMIT_WINDOW_MS)
PruneShort(ts, t) == SelectSeq(ts, LAMBDA x : t - x < RATE_LIMIT_WINDOW_MS - 1)
Prune(ts, t) == SelectSeq(ts, LAMBDA x : t - x < RATE_LIMIT_WINDOW_MS)

\* the request the cooldown is measured from: Math.max(...timestamps)
LastRequest(ts) == SeqMax(ts)

\* now - lastRequest < COOLDOWN_BETWEEN_REQUESTS_MS
InCooldownStrict(t, last) == t - last < COOLDOWN_BETWEEN_REQUESTS_MS - 1
InCooldown(t, last) == t - last < COOLDOWN_BETWEEN_REQUESTS_MS

\* userLimit.blockedUntil = now + (waitTime * 1000)
BlockedUntilUnscaled(t, waitTime) == t + waitTime
BlockedUntil(t, waitTime) == t + waitTime * MS_PER_SECOND

\* cleanup filter: now - Math.max(...limit.timestamps, 0) > RATE_LIMIT_WINDOW_MS * 2
IsExpiredUser(rec, t) ==
  t - (IF Len(rec.timestamps) = 0 THEN 0 ELSE SeqMax(rec.timestamps))
    > RATE_LIMIT_WINDOW_MS * 2

\* the cleanup run when userRateLimits.size > 5000
Cleanup(limits, t) ==
  IF Cardinality(DOMAIN limits) > MAX_TRACKED_USERS
  THEN [x \in {y \in DOMAIN limits : ~IsExpiredUser(limits[y], t)} |-> limits[x]]
  ELSE limits

\* the record after the return of the cooldown branch: nothing is pushed
DeniedByCooldownRecorded(rec, t) == [rec EXCEPT !.timestamps = Append(@, t)]
DeniedByCooldown(rec, t) == rec

(* checkRateLimit(u) at clock value t: the return value and the map        *)
(* afterwards.  The filter assigns to the record object, so an existing    *)
(* record is pruned in the map on the cooldown path too; a record created  *)
(* by the || default reaches the map only through set().                   *)
checkRateLimit(limits, u, t) ==
  LET userLimit == GetUserLimit(limits, u)
      pruned    == [userLimit EXCEPT !.timestamps = Prune(@, t)]
  IN
  IF IsBlocked(userLimit, t)
  THEN [allowed |-> FALSE,
        waitTime |-> CeilDiv(userLimit.blockedUntil - t, MS_PER_SECOND),
        limits |-> limits]
  ELSE IF Len(pruned.timestamps) >= MAX_REQUESTS_PER_WINDOW
  THEN LET oldestTimestamp == SeqMin(pruned.timestamps)
           waitTime == CeilDiv(RATE_LIMIT_WINDOW_MS - (t - oldestTimestamp), MS_PER_SECOND)
       IN [allowed |-> FALSE,
           waitTime |-> waitTime,
           limits |-> SetUserLimit(limits, u,
                        [pruned EXCEPT !.blockedUntil = BlockedUntil(t, waitTime)])]
  ELSE IF Len(pruned.timestamps) > 0 /\ InCooldown(t, LastRequest(pruned.timestamps))
  THEN [allowed |-> FALSE,
        waitTime |-> CeilDiv(COOLDOWN_BETWEEN_REQUESTS_MS
                               - (t - LastRequest(pruned.timestamps)), MS_PER_SECOND),
        limits |-> IF u \in DOMAIN limits
                   THEN SetUserLimit(limits, u, DeniedByCooldown(pruned, t))
                   ELSE limits]
  ELSE [allowed |-> TRUE,
        waitTime |-> 0,
        limits |-> Cleanup(SetUserLimit(limits, u,
                     [pruned EXCEPT !.timestamps = Append(@, t)]), t)]

(* The admitted times of a user that are less than RATE_LIMIT_WINDOW_MS    *)
(* before the admission at t, and t; at most MAX_REQUESTS_PER_WINDOW + 1   *)
(* are kept.                                                               *)
LogAdmit(log, t) ==
  LET all == Append(SelectSeq(log, LAMBDA x : t - x < RATE_LIMIT_WINDOW_MS), t)
  IN IF Len(all) > MAX_REQUESTS_PER_WINDOW + 1 THEN Tail(all) ELSE all

(* askLLM of the rate-limit revision after checkRateLimit returned: what   *)
(* reaches the caller before any upstream call.                            *)
askLLMRateLimit(rateLimitCheck) ==
  IF ~rateLimitCheck.allowed
  THEN [signal |-> "throw", message |-> "RATE_LIMITED"]
  ELSE [signal |-> "continue"]

\* a call of checkRateLimit by user u
CheckRateLimit(u) ==
  /\ variant = RateLimitVariant
  /\ LET r == checkRateLimit(userRateLimits, u, now) IN
     /\ userRateLimits' = r.limits
     /\ lastCheck' = [user |-> u, allowed |-> r.allowed, waitTime |-> r.waitTime]
     /\ lastAdmit' = IF r.allowed THEN [lastAdmit EXCEPT ![u] = now] ELSE lastAdmit
     /\ prevAdmit' = IF r.allowed THEN [prevAdmit EXCEPT ![u] = lastAdmit[u]] ELSE prevAdmit
     /\ admitLog' = IF r.allowed THEN [admitLog EXCEPT ![u] = LogAdmit(@, now)]
                                  ELSE admitLog
  /\ UNCHANGED <<now, userCooldowns, dispatchVars, reloadVars, cacheVars, processVars, selVars, directVars>>

\* the clock advances (Date.now() does not go backwards)
TickRate ==
  /\ variant = RateLimitVariant
  /\ now < MaxTime
  /\ now' = now + 1
  /\ UNCHANGED <<userRateLimits, lastCheck, lastAdmit, prevAdmit, userCooldowns,
                 admitLog, dispatchVars, reloadVars, cacheVars, processVars, selVars, directVars>>

(* ------------------- conversation cache: timers and commands ----------- *)
\* the contexts a step has deleted lose their history
LogAfter(cache) ==
  [key \in ContextKeys |-> IF cache[key] = NoContext THEN <<>> ELSE appendLog[key]]

\* the number of contexts a sweep deletes (cleaned)
Cleaned(cache, t) ==
  Cardinality({key \in ContextKeys :
                 cache[key] # NoContext /\ cleanupCache(cache, t)[key] = NoContext})

\* setInterval(() => cleanupCache(), 5 min)
CleanupCache ==
  /\ variant = "persist"
  /\ finishing = {}
  /\ conversationCache' = cleanupCache(conversationCache, now)
  /\ appendLog' = LogAfter(conversationCache')
  /\ lastEvent' = Record(Cleaned(conversationCache, now), "cleanupCache")
  /\ UNCHANGED <<directVars, selVars, processVars, reloadVars, rateVars, callers, requestIds>>
  /\ UNCHANGED <<variant, submitted, requestQueue, retryCount, isProcessing,
                 activeGroqRequests, activeRequests, attempts, upstreamOpen, finishing,
                 settled, settleCount, totalRequests, successfulRequests, failedRequests,
                 pendingSaves, pendingWrites, queueFile, enqueueLog, launchLog, requeues,
                 failedAttempts, ahead>>

\* clearUserConversation(userId, channelId)
ClearUserConversation(key) ==
  /\ variant = "persist"
  /\ finishing = {}
  /\ conversationCache' = [conversationCache EXCEPT ![key] = NoContext]
  /\ appendLog' = LogAfter(conversationCache')
  /\ lastEvent' = Record(NoEvent.q, NoEvent.outcome)
  /\ UNCHANGED <<directVars, selVars, processVars, reloadVars, rateVars, callers, requestIds>>
  /\ UNCHANGED <<variant, submitted, requestQueue, retryCount, isProcessing,
                 activeGroqRequests, activeRequests, attempts, upstreamOpen, finishing,
                 settled, settleCount, totalRequests, successfulRequests, failedRequests,
                 pendingSaves, pendingWrites, queueFile, enqueueLog, launchLog, requeues,
                 failedAttempts, ahead>>

\* clearAllConversations()
ClearAllConversations ==
  /\ variant = "persist"
  /\ finishing = {}
  /\ conversationCache' = [key \in ContextKeys |-> NoContext]
  /\ appendLog' = LogAfter(conversationCache')
  /\ lastEvent' = Record(NoEvent.q, NoEvent.outcome)
  /\ UNCHANGED <<directVars, selVars, processVars, reloadVars, rateVars, callers, requestIds>>
  /\ UNCHANGED <<variant, submitted, requestQueue, retryCount, isProcessing,
                 activeGroqRequests, activeRequests, attempts, upstreamOpen, finishing,
                 settled, settleCount, totalRequests, successfulRequests, failedRequests,
                 pendingSaves, pendingWrites, queueFile, enqueueLog, launchLog, requeues,
                 failedAttempts, ahead>>

\* the clock of the dispatcher advances
TickCache ==
  /\ variant = "persist"
  /\ finishing = {}
  /\ now < MaxTimeCache
  /\ now' = now + 1
  /\ UNCHANGED <<userRateLimits, lastCheck, lastAdmit, prevAdmit, userCooldowns,
                 admitLog, dispatchVars, reloadVars, cacheVars, processVars, selVars, directVars>>

(* ------------- cooldown map (userCooldowns) of askLLM ------------------- *)
\* the revisions whose askLLM keeps userCooldowns: src/utils/llm.ts and the
\* timeout revision
CooldownVariants == {"cooldown", "timeout"}
\* the users calling askLLM: one more than the map may hold before it evicts
CooldownUsers == 1..(MAX_COOLDOWN_USERS + 1)

\* userCooldowns.get(userId): undefined (falsy, here 0) when the key is absent
CooldownGet(m, u) ==
  IF \E i \in 1..Len(m) : m[i].key = u
  THEN (CHOOSE e \in Range(m) : e.key = u).value
  ELSE 0

\* userCooldowns.set(userId, now): an existing key keeps its place in the
\* insertion order, a new key goes last
CooldownSet(m, u, t) ==
  IF \E i \in 1..Len(m) : m[i].key = u
  THEN [i \in 1..Len(m) |-> IF m[i].key = u THEN [key |-> u, value |-> t] ELSE m[i]]
  ELSE Append(m, [key |-> u, value |-> t])

\* lastRequest && (now - lastRequest) < COOLDOWN_MS
CooldownActive(t, last) == last # 0 /\ (t - last) < COOLDOWN_MS

\* number of keys the cleanup deletes: keys().next().value, or slice(0, 100)
EvictCount(v) == IF v = "timeout" THEN EVICT_BATCH ELSE 1

\* the cleanup run when userCooldowns.size > 1000: the first keys in
\* insertion order are deleted
CooldownEvict(v, m) ==
  IF Len(m) > MAX_COOLDOWN_USERS
  THEN SubSeq(m, Min(EvictCount(v), Len(m)) + 1, Len(m))
  ELSE m

(* The cooldown check at the head of askLLM(userQuery, userId) at clock     *)
(* value t: whether the call goes on, the wait time of the message         *)
(* otherwise, and the map afterwards.                                      *)
cooldownCheck(v, m, u, t) ==
  LET lastRequest == CooldownGet(m, u) IN
  IF CooldownActive(t, lastRequest)
  THEN [allowed |-> FALSE,
        waitTime |-> CeilDiv(COOLDOWN_MS - (t - lastRequest), MS_PER_SECOND),
        map |-> m]
  ELSE [allowed |-> TRUE, waitTime |-> 0, map |-> CooldownEvict(v, CooldownSet(m, u, t))]

\* the cooldown map before the first call
CooldownStart ==
  /\ now = 1
  /\ userRateLimits = <<>>
  /\ lastCheck = [user |-> 0, allowed |-> TRUE, waitTime |-> 0]
  /\ lastAdmit = [u \in CooldownUsers |-> 0]
  /\ prevAdmit = [u \in CooldownUsers |-> 0]
  /\ userCooldowns = <<>>
  /\ admitLog = [u \in CooldownUsers |-> <<>>]

\* askLLM(userQuery, u) up to the end of its cooldown check
CooldownAskLLM(u) ==
  /\ variant \in CooldownVariants
  /\ LET r == cooldownCheck(variant, userCooldowns, u, now) IN
     /\ userCooldowns' = r.map
     /\ lastCheck' = [user |-> u, allowed |-> r.allowed, waitTime |-> r.waitTime]
     /\ lastAdmit' = IF r.allowed THEN [lastAdmit EXCEPT ![u] = now] ELSE lastAdmit
     /\ prevAdmit' = IF r.allowed THEN [prevAdmit EXCEPT ![u] = lastAdmit[u]] ELSE prevAdmit
  /\ UNCHANGED <<now, userRateLimits, admitLog, dispatchVars, reloadVars, cacheVars, processVars, selVars, directVars>>

\* the clock advances between calls of askLLM
TickCooldown ==
  /\ variant \in CooldownVariants
  /\ now < MaxTimeCooldown
  /\ now' = now + 1
  /\ UNCHANGED <<userRateLimits, lastCheck, lastAdmit, prevAdmit, userCooldowns,
                 admitLog, dispatchVars, reloadVars, cacheVars, processVars, selVars, directVars>>


(* ------------------ persistence round trip (shutdown, reload) ---------- *)
\* obj.key of a parsed JSON object: undefined when the key is absent
Get(obj, k) == IF k \in DOMAIN obj THEN obj[k] ELSE Undefined

(* JSON.parse(JSON.stringify(obj)) of a flat object: keys whose value is   *)
(* undefined are left out of the text.                                     *)
(* Only the optional string parameters of askLLM can be undefined.  *)
OptionalKeys == {"userId", "channelId", "messageId"}
JsonObject(obj) ==
  [k \in {x \in DOMAIN obj : x \notin OptionalKeys \/ obj[x] # Undefined} |-> obj[k]]

\* saveQueue: requestQueue.map(req => ({id, userQuery, ...})) written as JSON
QueueSnapshot(queue) ==
  [i \in 1..Len(queue) |->
     JsonObject([k \in {"id", "userQuery", "userId", "channelId", "messageId",
                        "timestamp", "retryCount"} |-> Get(queue[i], k)])]

\* saveConversationCache: Object.fromEntries(conversationCache) written as JSON
CacheSnapshot(cache) == [k \in DOMAIN cache |-> JsonObject(cache[k])]

\* the request object askLLM builds for the i-th reloaded entry
NewRequest(req, i, t) ==
  [id |-> <<t, i>>, userQuery |-> Get(req, "userQuery"), userId |-> Get(req, "userId"),
   channelId |-> Get(req, "channelId"), messageId |-> Get(req, "messageId"),
   timestamp |-> t, retryCount |-> 0]

\* the JSON value null: reading a property of it throws a TypeError
Null == [null |-> TRUE]

(* The for loop of loadPersistedQueue: every entry goes through askLLM     *)
(* (push, saveQueue(), processQueue()); req.userQuery of a null entry      *)
(* throws, which ends the loop in the catch block.                         *)
RECURSIVE LoadRequests(_, _, _, _)
LoadRequests(persistedRequests, i, t, s) ==
  IF i > Len(persistedRequests) \/ persistedRequests[i] = Null THEN s
  ELSE LET s1 == processQueue("persist",
                              Append(s.queue, NewRequest(persistedRequests[i], i, t)),
                              s.active, s.saves + 1)
       IN LoadRequests(persistedRequests, i + 1, t,
                       [s1 EXCEPT !.launched = s.launched \o s1.launched])

\* loadConversationCache: Date.now() - ctx.lastActivity < CACHE_TIMEOUT
IsRecent(ctx, t) == t - ctx.lastActivity < CACHE_TIMEOUT

\* Object.entries(cachedData): the keys in the order of the file
EntryOrder == <<"u1-c1", "u2-c1">>
\* the keys the for loop reaches before ctx.lastActivity of a null entry throws
Reached(cachedData) ==
  {EntryOrder[i] : i \in {j \in 1..Len(EntryOrder) :
     /\ EntryOrder[j] \in DOMAIN cachedData
     /\ \A h \in 1..j : EntryOrder[h] \in DOMAIN cachedData
                           => cachedData[EntryOrder[h]] # Null}}

\* loadConversationCache: the entries of the file that are set into the map
LoadCache(cachedData, t) ==
  [k \in {x \in Reached(cachedData) : IsRecent(cachedData[x], t)} |-> cachedData[k]]

(* Request objects and conversation contexts a run may hold at shutdown.   *)
RequestSamples ==
  { [id |-> "r1", userQuery |-> "when", userId |-> "u1", channelId |-> "c1",
     messageId |-> "m1", timestamp |-> 1, retryCount |-> 0],
    [id |-> "r2", userQuery |-> "where", userId |-> Undefined, channelId |-> Undefined,
     messageId |-> Undefined, timestamp |-> 1, retryCount |-> 2],
    [id |-> "r3", userQuery |-> "who", userId |-> "u2", channelId |-> Undefined,
     messageId |-> Undefined, timestamp |-> 1, retryCount |-> 1] }

\* sequences without repetition over S of length at most n
RECURSIVE SeqsUpTo(_, _)
SeqsUpTo(S, n) ==
  IF n = 0 THEN {<<>>}
  ELSE LET shorter == SeqsUpTo(S, n - 1)
       IN shorter \cup {Append(s, x) : s \in shorter, x \in S}

DistinctSeqs(S, n) ==
  {s \in SeqsUpTo(S, n) : \A i, j \in 1..Len(s) : i # j => s[i] # s[j]}

CacheKeys == {"u1-c1", "u2-c1"}

ContextOf(key, lastActivity) ==
  [userId |-> IF key = "u1-c1" THEN "u1" ELSE "u2", channelId |-> "c1",
   messages |-> << [role |-> "user", content |-> "when", timestamp |-> lastActivity],
                   [role |-> "assistant", content |-> "soon", timestamp |-> lastActivity] >>,
   lastActivity |-> lastActivity]

CacheSamples ==
  UNION { [keys -> {0, 1}] : keys \in SUBSET CacheKeys }

ReloadInit ==
  /\ rPhase = "up"
  /\ rNow = 1
  /\ rRequestQueue \in DistinctSeqs(RequestSamples, MaxSnapshotLen)
  /\ \E f \in CacheSamples :
       rConversationCache = [k \in DOMAIN f |-> ContextOf(k, f[k])]
  /\ rQueueFile = NoFile
  /\ rCacheFile = NoFile
  /\ rGarbled = {}
  /\ rQueueAfter = <<>>
  /\ rLaunchedAfter = <<>>
  /\ rCacheAfter = <<>>

\* SIGINT / SIGTERM handler: await saveQueue(); await saveConversationCache(); exit
Shutdown ==
  /\ rPhase = "up"
  /\ rQueueFile' = File(QueueSnapshot(rRequestQueue))
  /\ rCacheFile' = File(CacheSnapshot(rConversationCache))
  /\ rPhase' = "down"
  /\ UNCHANGED <<rGarbled, rNow, rRequestQueue, rConversationCache, rQueueAfter, rLaunchedAfter,
                 rCacheAfter, dispatchVars, rateVars, cacheVars, processVars, selVars, directVars>>

\* the process dies before any snapshot was written
Crash ==
  /\ rPhase = "up"
  /\ rPhase' = "down"
  /\ UNCHANGED <<rGarbled, rNow, rRequestQueue, rConversationCache, rQueueFile, rCacheFile,
                 rQueueAfter, rLaunchedAfter, rCacheAfter, dispatchVars, rateVars, cacheVars, processVars, selVars, directVars>>

\* time passes while the process is down
Downtime ==
  /\ rPhase = "down"
  /\ rNow < MaxTime
  /\ rNow' = rNow + 1
  /\ UNCHANGED <<rGarbled, rPhase, rRequestQueue, rConversationCache, rQueueFile, rCacheFile,
                 rQueueAfter, rLaunchedAfter, rCacheAfter, dispatchVars, rateVars, cacheVars, processVars, selVars, directVars>>

\* startup: loadPersistedQueue(); a missing file (ENOENT) and a text that
\* JSON.parse rejects load nothing
LoadPersistedQueue ==
  /\ rPhase = "down"
  /\ LET s0 == [queue |-> <<>>, active |-> 0, launched |-> <<>>, saves |-> 0]
         s  == IF rQueueFile = NoFile \/ "queue" \in rGarbled THEN s0
               ELSE LoadRequests(rQueueFile[1], 1, rNow, s0)
     IN /\ rQueueAfter' = s.queue
        /\ rLaunchedAfter' = s.launched
  /\ rPhase' = "queueLoaded"
  /\ UNCHANGED <<rGarbled, rNow, rRequestQueue, rConversationCache, rQueueFile, rCacheFile,
                 rCacheAfter, dispatchVars, rateVars, cacheVars, processVars, selVars, directVars>>

\* startup: loadConversationCache()
LoadConversationCache ==
  /\ rPhase = "queueLoaded"
  /\ rCacheAfter' = IF rCacheFile = NoFile \/ "cache" \in rGarbled THEN <<>>
                     ELSE LoadCache(rCacheFile[1], rNow)
  /\ rPhase' = "reloaded"
  /\ UNCHANGED <<rGarbled, rNow, rRequestQueue, rConversationCache, rQueueFile, rCacheFile,
                 rQueueAfter, rLaunchedAfter, dispatchVars, rateVars, cacheVars, processVars, selVars, directVars>>

\* while the process is down the text of a snapshot file is damaged, so
\* that JSON.parse throws a SyntaxError
GarbleText(file) ==
  /\ rPhase = "down"
  /\ file \notin rGarbled
  /\ IF file = "queue" THEN rQueueFile # NoFile ELSE rCacheFile # NoFile
  /\ rGarbled' = rGarbled \cup {file}
  /\ UNCHANGED <<rPhase, rNow, rRequestQueue, rConversationCache, rQueueFile, rCacheFile,
                 rQueueAfter, rLaunchedAfter, rCacheAfter, dispatchVars, rateVars, cacheVars, processVars, selVars, directVars>>

\* while the process is down an entry of the queue snapshot becomes null
NullRequest ==
  /\ rPhase = "down"
  /\ rQueueFile # NoFile
  /\ \E i \in 1..Len(rQueueFile[1]) :
       /\ rQueueFile[1][i] # Null
       /\ rQueueFile' = File([rQueueFile[1] EXCEPT ![i] = Null])
  /\ UNCHANGED <<rGarbled, rPhase, rNow, rRequestQueue, rConversationCache, rCacheFile,
                 rQueueAfter, rLaunchedAfter, rCacheAfter, dispatchVars, rateVars, cacheVars, processVars, selVars, directVars>>

\* while the process is down an entry of the cache snapshot becomes null
NullContext ==
  /\ rPhase = "down"
  /\ rCacheFile # NoFile
  /\ \E k \in DOMAIN rCacheFile[1] :
       /\ rCacheFile[1][k] # Null
       /\ rCacheFile' = File([rCacheFile[1] EXCEPT ![k] = Null])
  /\ UNCHANGED <<rGarbled, rPhase, rNow, rRequestQueue, rConversationCache, rQueueFile,
                 rQueueAfter, rLaunchedAfter, rCacheAfter, dispatchVars, rateVars, cacheVars, processVars, selVars, directVars>>

(* ------------------- askLLM without a queue (direct) ------------------- *)
\* shouldRateLimit(): the timestamps left by the cleaning loop
CleanOld(timestamps, t) ==
  LET old == {i \in 1..Len(timestamps) :
                \A j \in 1..i : timestamps[j] < t - RATE_WINDOW_MS}
  IN SubSeq(timestamps, Cardinality(old) + 1, Len(timestamps))

\* shouldRateLimit(): the value returned
shouldRateLimit(timestamps, t) ==
  Len(CleanOld(timestamps, t)) >= MAX_REQUESTS_PER_MINUTE

\* recordRequest()
recordRequest(timestamps, t) == Append(timestamps, t)

\* activeRequests++, totalRequests++, recordRequest(), then the upstream call
DirectBegin(timestamps) ==
  /\ activeRequests' = activeRequests + 1
  /\ totalRequests' = totalRequests + 1
  /\ requestTimestamps' = recordRequest(timestamps, now)

(* askLLM(userQuery) up to its first await: the soft limit throws, the     *)
(* concurrency check sends the call into the delay, otherwise the upstream *)
(* call starts.                                                            *)
DirectAskLLM ==
  /\ variant = DirectVariant
  /\ submitted < NumCallsD
  /\ submitted' = submitted + 1
  /\ IF shouldRateLimit(requestTimestamps, now)
     THEN /\ requestTimestamps' = CleanOld(requestTimestamps, now)
          /\ UNCHANGED <<activeRequests, totalRequests, delayed>>
     ELSE IF activeRequests >= SAFETY_MAX_CONCURRENT
     THEN /\ delayed' = delayed + 1
          /\ requestTimestamps' = CleanOld(requestTimestamps, now)
          /\ UNCHANGED <<activeRequests, totalRequests>>
     ELSE /\ DirectBegin(CleanOld(requestTimestamps, now))
          /\ UNCHANGED delayed
  /\ UNCHANGED <<variant, requestQueue, retryCount, isProcessing, activeGroqRequests,
                 attempts, upstreamOpen, finishing, settled, settleCount,
                 successfulRequests, failedRequests, pendingSaves, pendingWrites,
                 queueFile, enqueueLog, launchLog, requeues, failedAttempts, ahead,
                 lastEvent>>
  /\ UNCHANGED <<reloadVars, rateVars, cacheVars, processVars, selVars>>

\* the timer of the delay fired: the call goes on without a second check
DirectResume ==
  /\ variant = DirectVariant
  /\ delayed > 0
  /\ delayed' = delayed - 1
  /\ DirectBegin(requestTimestamps)
  /\ UNCHANGED <<variant, submitted, requestQueue, retryCount, isProcessing,
                 activeGroqRequests, attempts, upstreamOpen, finishing, settled,
                 settleCount, successfulRequests, failedRequests, pendingSaves,
                 pendingWrites, queueFile, enqueueLog, launchLog, requeues,
                 failedAttempts, ahead, lastEvent>>
  /\ UNCHANGED <<reloadVars, rateVars, cacheVars, processVars, selVars>>

\* processGroqRequest returned or threw: the counter of the outcome, then
\* activeRequests-- in the finally block of the same run
DirectDone ==
  /\ variant = DirectVariant
  /\ activeRequests > 0
  /\ \/ successfulRequests' = successfulRequests + 1 /\ UNCHANGED failedRequests
     \/ failedRequests' = failedRequests + 1 /\ UNCHANGED successfulRequests
  /\ activeRequests' = activeRequests - 1
  /\ UNCHANGED <<variant, submitted, requestQueue, retryCount, isProcessing,
                 activeGroqRequests, attempts, upstreamOpen, finishing, settled,
                 settleCount, totalRequests, pendingSaves, pendingWrites, queueFile,
                 enqueueLog, launchLog, requeues, failedAttempts, ahead, lastEvent>>
  /\ UNCHANGED <<reloadVars, rateVars, cacheVars, processVars, selVars, directVars>>

\* the clock advances
TickDirect ==
  /\ variant = DirectVariant
  /\ now < MaxTimeD
  /\ now' = now + 1
  /\ UNCHANGED <<userRateLimits, lastCheck, lastAdmit, prevAdmit, userCooldowns,
                 admitLog, dispatchVars, reloadVars, cacheVars, processVars, selVars,
                 directVars>>

(* ------------------------------ shutdown ------------------------------- *)
Exited == {"exitedDrained", "exitedTimeout", "exitedSaved"}
\* the revision of index.ts with handleConcurrentRequest runs with the
\* rate-limit revision of utils/llm.ts (it catches RATE_LIMITED)
IndexVariant == RateLimitVariant

\* activeRequests.size: the users with a handler in progress
ActiveUsers == DOMAIN handlerCount

\* activeRequests.get(userId) || fallback
GetOr(map, u, fallback) ==
  IF u \in DOMAIN map /\ map[u] # 0 THEN map[u] ELSE fallback

\* activeRequests.set(userId, n)
MapSet(map, u, n) == [v \in DOMAIN map \cup {u} |-> IF v = u THEN n ELSE map[v]]

\* activeRequests.delete(userId)
MapDelete(map, u) == [v \in DOMAIN map \ {u} |-> map[v]]

\* a finally block that stores the remaining count whatever it is
ReleaseSlotStoresZero(map, u) == MapSet(map, u, GetOr(map, u, 1) - 1)

\* the finally block of handleConcurrentRequest
ReleaseSlot(map, u) ==
  LET remaining == GetOr(map, u, 1) - 1
  IN IF remaining <= 0 THEN MapDelete(map, u) ELSE MapSet(map, u, remaining)

(* messageCreate of index.ts: handleConcurrentRequest admits the message   *)
(* unless the user has MAX_CONCURRENT_REQUESTS_PER_USER handlers running.  *)
MessageCreate(u) ==
  /\ variant = IndexVariant
  /\ phase \notin Exited
  /\ LET currentRequests == GetOr(handlerCount, u, 0)
     IN IF currentRequests >= MAX_CONCURRENT_REQUESTS_PER_USER
        THEN /\ thrown' = "TOO_MANY_CONCURRENT"
             /\ UNCHANGED <<handlerCount, running>>
        ELSE /\ handlerCount' = MapSet(handlerCount, u, currentRequests + 1)
             /\ running' = [running EXCEPT ![u] = @ + 1]
             /\ thrown' = "none"
  /\ UNCHANGED <<phase, shutdownPolls, dispatchVars, reloadVars, rateVars, cacheVars, selVars, directVars>>

(* handler() of a running handleConcurrentRequest call returns or throws:  *)
(* the finally block runs, and what handler() threw is thrown on.          *)
HandlerDone(u) ==
  /\ variant = IndexVariant
  /\ phase \notin Exited
  /\ running[u] > 0
  /\ \E threw \in BOOLEAN :
       thrown' = IF threw THEN "handler" ELSE "none"
  /\ handlerCount' = ReleaseSlot(handlerCount, u)
  /\ running' = [running EXCEPT ![u] = @ - 1]
  /\ UNCHANGED <<phase, shutdownPolls, dispatchVars, reloadVars, rateVars, cacheVars, selVars, directVars>>

(* SIGINT handler of index.ts: start the shutdown timeout; with no active  *)
(* request it goes on to client.destroy() and process.exit(0).             *)
SigintIndex ==
  /\ variant = IndexVariant
  /\ phase = "running"
  /\ IF ActiveUsers = {}
     THEN phase' = "exitedDrained" /\ UNCHANGED shutdownPolls
     ELSE phase' = "waiting" /\ shutdownPolls' = SHUTDOWN_POLLS
  /\ UNCHANGED <<handlerCount, running, thrown, dispatchVars, reloadVars, rateVars, cacheVars, selVars, directVars>>

\* the loop wakes after 500 ms: exit when no request is active, else wait on
PollIndex ==
  /\ variant = IndexVariant
  /\ phase = "waiting"
  /\ shutdownPolls > 0
  /\ shutdownPolls' = shutdownPolls - 1
  /\ phase' = IF ActiveUsers = {} THEN "exitedDrained" ELSE "waiting"
  /\ UNCHANGED <<handlerCount, running, thrown, dispatchVars, reloadVars, rateVars, cacheVars, selVars, directVars>>

\* the shutdown timeout fires: process.exit(0)
TimeoutIndex ==
  /\ variant = IndexVariant
  /\ phase = "waiting"
  /\ shutdownPolls = 0
  /\ phase' = "exitedTimeout"
  /\ UNCHANGED <<handlerCount, running, thrown, shutdownPolls, dispatchVars, reloadVars, rateVars, cacheVars, selVars, directVars>>

\* SIGINT / SIGTERM handler of utils/llm.ts: await saveQueue() begins
SigintLLM ==
  /\ variant = "persist"
  /\ phase = "running"
  /\ finishing = {}
  /\ phase' = "saving"
  /\ UNCHANGED <<handlerCount, running, thrown, shutdownPolls, dispatchVars, reloadVars, rateVars, cacheVars, selVars, directVars>>

\* the two saves are written and the handler calls process.exit(0)
ExitLLM ==
  /\ variant = "persist"
  /\ phase = "saving"
  /\ finishing = {}
  /\ queueFile' = File(requestQueue)
  /\ phase' = "exitedSaved"
  /\ UNCHANGED <<handlerCount, running, thrown, shutdownPolls, reloadVars, rateVars, cacheVars, selVars, directVars>>
  /\ UNCHANGED <<variant, submitted, requestQueue, retryCount, isProcessing,
                 activeGroqRequests, activeRequests, attempts, upstreamOpen, finishing,
                 settled, settleCount, totalRequests, successfulRequests,
                 failedRequests, pendingSaves, pendingWrites, enqueueLog, launchLog,
                 requeues, failedAttempts, ahead, lastEvent>>

(* --------------------------- specifications ---------------------------- *)
Handlers ==
  \/ AskLLM
  \/ \E q \in Queries : ThenHandler(q)
  \/ \E q \in Queries : CatchHandler(q)
  \/ FinallyHandler
  \/ AskLLMT
  \/ \E q \in Queries : UpstreamSettledT(q)
  \/ \E q \in Queries : TimeoutT(q)
  \/ \E q \in Queries : LateReturnT(q)

(* The dispatcher.  File-system completions (SaveCapture, SaveWrite) change *)
(* only pendingSaves, pendingWrites and queueFile, which no handler reads,  *)
(* so they are left to SpecPersist.                                         *)
Next == Handlers

Spec == Init /\ [][Next]_vars

(* The dispatcher of the persistent revision together with the file-system *)
(* completions of saveQueue.                                               *)
PersistInit == variant = "persist" /\ DispatchInit /\ NotRecording /\ NoIds /\ SelectorOff /\ ReloadOff /\ RateStart

PersistNext ==
  \/ (Handlers /\ pendingSaves' <= MaxPendingSaves /\ submitted' <= NumQueriesP)
  \/ SaveCapture
  \/ \E snap \in pendingWrites : SaveWrite(snap)

SpecPersist == PersistInit /\ [][PersistNext]_vars

(* A run that shuts down (or crashes), stays down for a while and reloads  *)
(* its snapshots.                                                          *)
ReloadSpecInit == variant = "persist" /\ DispatchInit /\ NotRecording /\ NoIds /\ SelectorOff /\ ReloadInit /\ RateStart

ReloadNext ==
  \/ Shutdown
  \/ Crash
  \/ Downtime
  \/ LoadPersistedQueue
  \/ LoadConversationCache

SpecReload == ReloadSpecInit /\ [][ReloadNext]_vars

(* The start of the process with snapshot files that are missing, not JSON *)
(* or hold a null entry.                                                   *)
LoadNext ==
  \/ Shutdown
  \/ Crash
  \/ Downtime
  \/ \E file \in {"queue", "cache"} : GarbleText(file)
  \/ NullRequest
  \/ NullContext
  \/ LoadPersistedQueue
  \/ LoadConversationCache

SpecLoad == ReloadSpecInit /\ [][LoadNext]_vars

(* The process up to its exit on a signal: index.ts with its polling       *)
(* handler, and the persistent revision of utils/llm.ts with its saving    *)
(* handler; no handler runs in a process that has exited.                  *)
ShutdownInit ==
  /\ variant \in {IndexVariant, "persist"}
  /\ DispatchInit /\ NotRecording /\ NoIds /\ SelectorOff /\ ReloadOff /\ RateStart

ShutdownNext ==
  \/ \E u \in Users : MessageCreate(u)
  \/ \E u \in Users : HandlerDone(u)
  \/ SigintIndex
  \/ PollIndex
  \/ TimeoutIndex
  \/ AskLLM /\ submitted' <= NumQueriesS /\ phase \notin Exited
  \/ \E q \in Queries : ThenHandler(q) /\ phase \notin Exited
  \/ \E q \in Queries : CatchHandler(q) /\ phase \notin Exited
  \/ FinallyHandler /\ phase \notin Exited
  \/ SigintLLM
  \/ ExitLLM

SpecShutdown == ShutdownInit /\ [][ShutdownNext]_vars

(* askLLM of the revision without a queue, called at any times while       *)
(* earlier calls are waiting for the upstream service.                     *)
DirectInit ==
  /\ variant = DirectVariant
  /\ DispatchInit /\ NotRecording /\ NoIds /\ SelectorOff /\ ReloadOff /\ RateStart

DirectNext == DirectAskLLM \/ DirectResume \/ DirectDone \/ TickDirect

SpecDirect == DirectInit /\ [][DirectNext]_vars

(* selectRelevantContext of every revision, called with every query made   *)
(* of the phrases.                                                         *)
SelectorInit ==
  /\ variant = "persist"
  /\ DispatchInit /\ NotRecording /\ callers = {Anonymous} /\ ReloadOff /\ RateStart
  /\ selRevision \in SelectorRevisions
  /\ selQuery \in SUBSET Phrases
  /\ selResult = NoResult

SelectorNext == Select \/ NextQuery

SpecSelector == SelectorInit /\ [][SelectorNext]_vars

(* The rate limiter called by any users at any times.                      *)
RateInit == variant = RateLimitVariant /\ DispatchInit /\ NotRecording /\ NoIds /\ SelectorOff /\ ReloadOff /\ RateStart

RateNext ==
  \/ \E u \in Users : CheckRateLimit(u)
  \/ TickRate

SpecRate == RateInit /\ [][RateNext]_vars

(* The cooldown check of askLLM called by any users at any times.          *)
CooldownInit ==
  /\ variant \in CooldownVariants
  /\ DispatchInit /\ NotRecording /\ NoIds /\ SelectorOff /\ ReloadOff /\ CooldownStart

CooldownNext ==
  \/ \E u \in CooldownUsers : CooldownAskLLM(u)
  \/ TickCooldown

SpecCooldown == CooldownInit /\ [][CooldownNext]_vars

(* The dispatcher with the upstream outcome of each ended attempt          *)
(* recorded in lastEvent.                                                  *)
OutcomeInit ==
  variant \in Variants /\ DispatchInit /\ RecordingOn /\ NoIds /\ SelectorOff /\ ReloadOff /\ RateStart

OutcomeNext ==
  \/ AskLLM /\ submitted' <= NumQueriesO
  \/ \E q \in Queries : ThenHandler(q)
  \/ \E q \in Queries : CatchHandler(q)
  \/ FinallyHandler
  \/ AskLLMT /\ submitted' <= NumQueriesO
  \/ \E q \in Queries : UpstreamSettledT(q)
  \/ \E q \in Queries : TimeoutT(q)
  \/ \E q \in Queries : LateReturnT(q)

SpecOutcome == OutcomeInit /\ [][OutcomeNext]_vars

(* The persistent revision with callers that pass their ids: the          *)
(* dispatcher, the sweep of the conversation cache, the clear commands and *)
(* the clock.                                                              *)
CacheInit ==
  variant = "persist" /\ DispatchInit /\ RecordingOn /\ WithIds /\ SelectorOff /\ ReloadOff /\ RateStart

\* the upstream outcomes drawn in these runs: a completion, a failure that
\* processGroqRequest returns as a message, and one it throws
CacheOutcomes == {"content", "s503", "other"}

\* the callers of these runs ask again once the last question is answered
Answered == attempts = {} /\ finishing = {} /\ requestQueue = <<>>

CacheNext ==
  \/ AskLLM /\ submitted' <= NumQueriesC /\ Answered
  \/ \E q \in Queries : ThenHandler(q) /\ lastEvent'.outcome \in CacheOutcomes
  \/ \E q \in Queries : /\ CatchHandler(q)
                         /\ lastEvent'.outcome \in CacheOutcomes
                         /\ failedAttempts'[q] <= MaxThrowsC
                         /\ \A r \in Queries \ {q} : failedAttempts[r] = 0
  \/ FinallyHandler
  \/ CleanupCache
  \/ \E key \in ContextKeys : ClearUserConversation(key)
  \/ ClearAllConversations
  \/ TickCache

SpecCache == CacheInit /\ [][CacheNext]_vars

(* The persistent revision with callers that pass their ids and ask        *)
(* without waiting for the answers, so that the upstream calls of one      *)
(* conversation overlap and return in any order; the clock stands still.   *)
ConversationNext ==
  \/ AskLLM /\ submitted' <= NumQueriesV
  \/ \E q \in Queries : ThenHandler(q) /\ lastEvent'.outcome \in CacheOutcomes
  \/ \E q \in Queries : /\ CatchHandler(q)
                         /\ lastEvent'.outcome \in CacheOutcomes
                         /\ failedAttempts'[q] <= MaxThrowsC
                         /\ \A r \in Queries \ {q} : failedAttempts[r] = 0
  \/ FinallyHandler
  \/ \E key \in ContextKeys : ClearUserConversation(key)

SpecConversation == CacheInit /\ [][ConversationNext]_vars

(* The dispatcher under the scheduling the event loop gives: every upstream *)
(* call eventually returns, throws or times out, and a pending .finally     *)
(* reaction is eventually run.  Callers need not call askLLM.               *)
FairNext == Handlers /\ (variant # "timeout" => submitted' <= NumQueriesF)

FairSpec ==
  /\ Init /\ [][FairNext]_vars
  /\ \A q \in Queries : WF_vars(ThenHandler(q) \/ CatchHandler(q))
  /\ \A q \in Queries : WF_vars(UpstreamSettledT(q) \/ TimeoutT(q))
  /\ WF_vars(FinallyHandler)

(* ------------------------------ properties ----------------------------- *)
Submitted == 1..submitted
Queued(q) == q \in Range(requestQueue)
\* the attempt of q is counted by the in-flight counter
Counted(q) == q \in attempts \/ q \in finishing
Resolved(q) == settled[q] = "resolved"
Rejected(q) == settled[q] = "rejected"
B2N(b) == IF b THEN 1 ELSE 0
\* no promise reaction is pending: the event loop is between macrotasks
Idle == finishing = {}
Active == IF variant = "timeout" THEN activeRequests ELSE activeGroqRequests

(* C1: the in-flight counter never exceeds the maximum concurrency, in the *)
(* persistent, the simple and the timeout revision.                        *)
C1_InFlightBounded ==
  /\ activeGroqRequests <= MAX_CONCURRENT_GROQ_REQUESTS
  /\ activeRequests <= MAX_CONCURRENT_REQUESTS
  /\ Cardinality(attempts) + B2N(finishing # {}) = Active

C1_Witness ==
  /\ variant = "persist"
  /\ activeGroqRequests = MAX_CONCURRENT_GROQ_REQUESTS
  /\ Len(requestQueue) > 0
  /\ \E q \in Queries : retryCount[q] > 0 /\ q \in attempts

(* C2: retry bound (persistent revision).  retryCount never exceeds 3; a   *)
(* request is pushed back once per failed attempt up to 3 times; it is     *)
(* rejected exactly when a fourth attempt has failed, after exactly 3      *)
(* requeues, and a rejected request is neither queued nor attempted again. *)
C2_RetryBound ==
  variant = "persist" =>
    \A q \in Queries :
      /\ retryCount[q] <= MAX_RETRIES
      /\ requeues[q] = retryCount[q]
      /\ requeues[q] = Min(failedAttempts[q], MAX_RETRIES)
      /\ failedAttempts[q] <= MAX_RETRIES + 1
      /\ Rejected(q) <=> failedAttempts[q] = MAX_RETRIES + 1
      /\ Rejected(q) => requeues[q] = MAX_RETRIES /\ ~Queued(q) /\ q \notin attempts

C2_Witness ==
  \E q \in Queries : variant = "persist" /\ Rejected(q) /\ requeues[q] = 3 /\ Idle

(* C3 as claimed: once three attempts of a request have failed (and the    *)
(* handlers of the third failure have run) the caller's promise is         *)
(* rejected.                                                               *)
C3_RejectedAfterThreeFailures ==
  variant = "persist" =>
    \A q \in Queries : (failedAttempts[q] = 3 /\ Idle) => Rejected(q)

(* C3 amended: the promise is rejected when four attempts (the first one   *)
(* and three retries) have failed, not before, and failedRequests counts   *)
(* each rejected request exactly once.                                     *)
C3_FailureCountedOnce ==
  variant = "persist" =>
    /\ \A q \in Queries : Rejected(q) <=> failedAttempts[q] = 4
    /\ failedRequests = Cardinality({q \in Queries : Rejected(q)})

C3_Witness ==
  /\ variant = "persist"
  /\ failedRequests = 1
  /\ \E q \in Queries : Rejected(q) /\ failedAttempts[q] = 4
  /\ \E q \in Queries : ~Rejected(q) /\ failedAttempts[q] = 3

\* in how many of the states queued, in flight, resolved, rejected request q is
StatesOf(q) == B2N(Queued(q)) + B2N(Counted(q)) + B2N(Resolved(q)) + B2N(Rejected(q))

(* C4 as claimed: at every state, the gap between .then/.catch and         *)
(* .finally included, each submitted request is in exactly one of the      *)
(* states queued, in flight (counted), resolved, rejected.                 *)
C4_ExactlyOneState == \A q \in Submitted : StatesOf(q) = 1

(* C4 amended: the partition holds whenever no .finally reaction is        *)
(* pending; while one is pending, the request it belongs to is already     *)
(* requeued or settled and still counted in flight, and every other        *)
(* request is in exactly one state.                                        *)
C4_ExactlyOneStateWhenIdle ==
  /\ Idle => C4_ExactlyOneState
  /\ \A q \in Submitted :
       IF q \in finishing
       THEN Counted(q) /\ StatesOf(q) = 2
       ELSE StatesOf(q) = 1
  /\ \A q \in Queries \ Submitted : StatesOf(q) = 0

C4_Witness ==
  \E q \in Queries :
    /\ variant = "persist" /\ Idle /\ Queued(q) /\ retryCount[q] > 0
    /\ \E r \in Queries : r # q /\ r \in attempts

(* C5: under FairSpec every request askLLM accepted is eventually resolved *)
(* or rejected.                                                            *)
C5_EventuallySettled ==
  \A q \in Queries : (q \in Submitted) ~> (settled[q] # "none")

C5_Witness ==
  \E q \in Queries : variant = "persist" /\ requeues[q] > 1 /\ Resolved(q) /\ Idle

(* C6: first attempts are launched in the order askLLM enqueued the        *)
(* requests: the sequence of first launches is a prefix of the sequence of *)
(* pushes.                                                                 *)
C6_FifoFirstAttempt ==
  /\ Len(launchLog) <= Len(enqueueLog)
  /\ \A i \in 1..Len(launchLog) : launchLog[i] = enqueueLog[i]

C6_Witness ==
  /\ variant = "persist"
  /\ Len(launchLog) >= 2
  /\ \E q, r \in Queries :
       /\ q # r /\ Queued(q) /\ Queued(r)
       /\ q \notin Range(launchLog) /\ r \notin Range(launchLog)
  /\ \E q \in Queries : Queued(q) /\ retryCount[q] > 0

(* C7: the pump leaves no capacity unused.  Whenever no promise reaction   *)
(* is pending, a non-empty queue implies a full worker pool; and an askLLM *)
(* call made while the counter is below the maximum launches the new       *)
(* request in the same handler run.                                        *)
C7_WorkConserving ==
  /\ [](Idle /\ Len(requestQueue) > 0 => Active = MaxConcurrent(variant))
  /\ [][(submitted' = submitted + 1 /\ Idle /\ Active < MaxConcurrent(variant))
          => (submitted' \in attempts' /\ Len(requestQueue') = 0)]_vars

C7_Witness ==
  /\ variant = "timeout"
  /\ Cardinality(attempts) = MAX_CONCURRENT_REQUESTS
  /\ Len(requestQueue) > 0
  /\ \E q \in Queries : settled[q] # "none" /\ q \in Range(launchLog)

(* C8: whenever a snapshot has been written and no saveQueue call is still *)
(* pending, every request askLLM accepted that is neither resolved nor     *)
(* rejected (queued or in flight) is in the queue file.                    *)
C8_SnapshotCoversUnfinished ==
  (queueFile # NoFile /\ pendingSaves = 0 /\ pendingWrites = {}) =>
    \A q \in Submitted : settled[q] = "none" => q \in Range(queueFile[1])

\* what askLLM is called with for a request
Payload(req) ==
  <<Get(req, "userQuery"), Get(req, "userId"), Get(req, "channelId"), Get(req, "messageId")>>

AcceptedAfter == rLaunchedAfter \o rQueueAfter

SameQueue ==
  /\ Len(AcceptedAfter) = Len(rRequestQueue)
  /\ \A i \in 1..Len(rRequestQueue) : Payload(AcceptedAfter[i]) = Payload(rRequestQueue[i])

(* C9: after shutdown and reload, the requests accepted again are as many  *)
(* as the queue held, in the same order and with the same query, user,     *)
(* channel and message, and the cache holds exactly the contexts it held   *)
(* except those whose lastActivity is older than CACHE_TIMEOUT.            *)
C9_RoundTrip ==
  (rPhase = "reloaded" /\ rQueueFile # NoFile /\ rCacheFile # NoFile) =>
    /\ SameQueue
    /\ rCacheAfter =
         [k \in {x \in DOMAIN rConversationCache :
                   ~(rNow - rConversationCache[x].lastActivity > CACHE_TIMEOUT)}
            |-> rConversationCache[k]]

(* C10: for every user, two requests admitted by checkRateLimit are at     *)
(* least COOLDOWN_BETWEEN_REQUESTS_MS apart, whatever the other users do   *)
(* and also across pruning and the stale-record cleanup.                   *)
C10_CooldownGap ==
  \A u \in Users :
    prevAdmit[u] # 0 => lastAdmit[u] - prevAdmit[u] >= COOLDOWN_BETWEEN_REQUESTS_MS

C10_Witness ==
  \E u \in Users :
    /\ lastAdmit[u] # 0
    /\ u \notin DOMAIN userRateLimits
    /\ \E v \in Users \ {u} : prevAdmit[v] # 0 /\ lastAdmit[v] = now

(* C11: in the cooldown-map revisions, two calls of askLLM by the same    *)
(* user that both pass the cooldown check are at least COOLDOWN_MS apart,  *)
(* whatever the other users do and also when entries are evicted.          *)
C11_CooldownMapGap ==
  \A u \in CooldownUsers :
    prevAdmit[u] # 0 => lastAdmit[u] - prevAdmit[u] >= COOLDOWN_MS

\* the step is a call of checkRateLimit by user u
CallBy(u) == lastCheck'.user = u /\ now' = now

\* the timestamps of u's record that are inside the window at time t
InWindow(limits, u, t) ==
  SelectSeq(GetUserLimit(limits, u).timestamps, LAMBDA x : t - x < RATE_LIMIT_WINDOW_MS)

(* C12: checkRateLimit never admits more than MAX_REQUESTS_PER_WINDOW      *)
(* requests of one user less than RATE_LIMIT_WINDOW_MS apart; every denial *)
(* carries a wait time above 0, and a call by a user who has               *)
(* MAX_REQUESTS_PER_WINDOW timestamps inside the window is denied; after a *)
(* call that pruned, every stored timestamp of the user is inside the      *)
(* window.                                                                 *)
C12_SlidingWindowCap ==
  /\ [](/\ \A u \in Users :
             Len(admitLog[u]) <= MAX_REQUESTS_PER_WINDOW
        /\ (~lastCheck.allowed => lastCheck.waitTime > 0))
  /\ [][\A u \in Users : CallBy(u) =>
          /\ Len(InWindow(userRateLimits, u, now)) >= MAX_REQUESTS_PER_WINDOW =>
               ~lastCheck'.allowed /\ lastCheck'.waitTime > 0
          /\ (~IsBlocked(GetUserLimit(userRateLimits, u), now)
                /\ u \in DOMAIN userRateLimits') =>
               \A ts \in Range(userRateLimits'[u].timestamps) :
                 now - ts < RATE_LIMIT_WINDOW_MS /\ now - ts >= 0]_vars

\* a user denied by the cap and blocked, the window having slid past the
\* start of the run
C12_Witness ==
  \E u \in Users :
    /\ lastCheck = [user |-> u, allowed |-> FALSE, waitTime |-> lastCheck.waitTime]
    /\ u \in DOMAIN userRateLimits
    /\ Len(userRateLimits[u].timestamps) = MAX_REQUESTS_PER_WINDOW
    /\ Len(admitLog[u]) = MAX_REQUESTS_PER_WINDOW
    /\ admitLog[u][1] - 1 >= RATE_LIMIT_WINDOW_MS
    /\ userRateLimits[u].blockedUntil > now

\* the record of user u is blocked at the current clock value
Blocked(u) == IsBlocked(GetUserLimit(userRateLimits, u), now)

\* a call by a blocked user is denied and changes nothing of the record
BlockIsStable ==
  [][\A u \in Users : Blocked(u) /\ now' = now =>
       /\ u \in DOMAIN userRateLimits' /\ userRateLimits'[u] = userRateLimits[u]
       /\ lastCheck'.user = u =>
            /\ ~lastCheck'.allowed
            /\ lastCheck'.waitTime * MS_PER_SECOND >= userRateLimits[u].blockedUntil - now
            /\ (lastCheck'.waitTime - 1) * MS_PER_SECOND
                 < userRateLimits[u].blockedUntil - now]_vars

(* C13 as claimed: while a user is blocked, blockedUntil equals the window *)
(* expiry of the oldest timestamp (oldest + RATE_LIMIT_WINDOW_MS), and     *)
(* calls during the block are denied and leave the record unchanged.       *)
C13_BlockedUntilIsWindowExpiry ==
  /\ [](\A u \in Users : Blocked(u) =>
          userRateLimits[u].blockedUntil
            = SeqMin(userRateLimits[u].timestamps) + RATE_LIMIT_WINDOW_MS)
  /\ BlockIsStable

(* C13 amended: blockedUntil is the window expiry of the oldest timestamp  *)
(* rounded up to whole seconds after the tripping call: at least           *)
(* oldest + RATE_LIMIT_WINDOW_MS and less than one second later; calls     *)
(* during the block are denied and leave the record unchanged.             *)
C13_BlockedUntilRoundedUp ==
  /\ [](\A u \in Users : Blocked(u) =>
          /\ Len(userRateLimits[u].timestamps) >= MAX_REQUESTS_PER_WINDOW
          /\ userRateLimits[u].blockedUntil
               >= SeqMin(userRateLimits[u].timestamps) + RATE_LIMIT_WINDOW_MS
          /\ userRateLimits[u].blockedUntil
               < SeqMin(userRateLimits[u].timestamps) + RATE_LIMIT_WINDOW_MS
                   + MS_PER_SECOND)
  /\ BlockIsStable

\* a blocked user whose deadline is later than the window expiry has just
\* been denied again, after the clock advanced
C13_Witness ==
  \E u \in Users :
    /\ Blocked(u)
    /\ userRateLimits[u].blockedUntil
         > SeqMin(userRateLimits[u].timestamps) + RATE_LIMIT_WINDOW_MS
    /\ lastCheck.user = u /\ ~lastCheck.allowed
    /\ now > lastAdmit[u] + 1
    /\ now >= SeqMin(userRateLimits[u].timestamps) + RATE_LIMIT_WINDOW_MS

\* what the caller of a check sees: allowed or denied, and the wait time
Outcome(r) == <<r.allowed, r.waitTime>>

(* C14: a check by one user leaves the outcome of every other user's next  *)
(* check, at any later clock value, as it would have been without it; for  *)
(* checkRateLimit and its cleanup, and for the cooldown check of askLLM    *)
(* and its eviction.                                                       *)
C14_NoCrossUserInterference ==
  [][now' = now =>
       /\ \A v \in Users \ {lastCheck'.user} : \A t \in now..MaxTime :
            Outcome(checkRateLimit(userRateLimits', v, t))
              = Outcome(checkRateLimit(userRateLimits, v, t))
       /\ \A v \in CooldownUsers \ {lastCheck'.user} : \A t \in now..MaxTimeCooldown :
            Outcome(cooldownCheck(variant, userCooldowns', v, t))
              = Outcome(cooldownCheck(variant, userCooldowns, v, t))]_vars

(* C15: a denial by the rate limiter reaches the caller of askLLM as a     *)
(* returned value that carries the wait time, never as a thrown error.     *)
C15_DenialIsReturned ==
  ~lastCheck.allowed =>
    LET signalled == askLLMRateLimit(lastCheck) IN
    /\ signalled.signal = "return"
    /\ signalled.waitTime = lastCheck.waitTime

\* the attempt of request q has just ended with upstream outcome o
JustEnded(q, o) == lastEvent = [q |-> q, outcome |-> o]

\* the step ends an attempt with an upstream outcome in O
EndsWith(O) == lastEvent' # lastEvent /\ lastEvent'.outcome \in O

\* after a retryable failure the request is back in the queue, or its
\* retries are used up and it is rejected
RetriedOrExhausted(q) ==
  \/ Queued(q) /\ settled[q] = "none" /\ requeues[q] > 0
  \/ Rejected(q) /\ requeues[q] = MAX_RETRIES

(* C16: in the persistent revision an upstream 429 is retried: after an    *)
(* attempt that ended in 429 the request has been requeued, unless its     *)
(* three retries are used up, and only then is the caller answered.        *)
C16_RateLimitRetried ==
  \A q \in Queries :
    variant = "persist" /\ JustEnded(q, "s429") => RetriedOrExhausted(q)

(* C17: in the persistent revision an upstream error of the 5xx class     *)
(* (500, 503) is retried: after an attempt that ended in it the request    *)
(* has been requeued, unless its three retries are used up.                *)
C17_UnavailableRetried ==
  \A q \in Queries : \A o \in {"s500", "s503"} :
    variant = "persist" /\ JustEnded(q, o) => RetriedOrExhausted(q)

\* upstream errors that are not retryable: authentication, oversized input
NonRetryable == {"s401", "s403", "s413"}

(* C18: in the persistent revision a request whose attempt ended in 401,   *)
(* 403 or 413 is not requeued and its promise is rejected; the step counts *)
(* it in failedRequests and not in successfulRequests.                     *)
C18_NonRetryableRejected ==
  /\ [](\A q \in Queries : \A o \in NonRetryable :
          variant = "persist" /\ JustEnded(q, o) => ~Queued(q) /\ Rejected(q))
  /\ [][variant = "persist" /\ EndsWith(NonRetryable) =>
          /\ failedRequests' = failedRequests + 1
          /\ successfulRequests' = successfulRequests]_vars

(* C19: in the timeout revision a request whose attempt timed out is       *)
(* retried: it is queued or in flight again and unsettled, unless its      *)
(* retries are used up.                                                    *)
C19_TimeoutRetried ==
  \A q \in Queries :
    variant = "timeout" /\ JustEnded(q, "timeout") =>
      \/ settled[q] = "none" /\ (Queued(q) \/ q \in attempts)
      \/ requeues[q] = MAX_RETRIES

\* the revisions whose dispatcher calls processGroqRequest
GroqVariants == {"persist", "simple"}

(* C20: in the revisions that call processGroqRequest, an empty upstream   *)
(* response resolves the request with the fixed fallback message; the step *)
(* counts a success and no failure, leaves the queue and every retryCount  *)
(* as they were, and a resolved request is never queued again.             *)
C20_EmptyResponseTerminal ==
  /\ [](\A q \in Queries :
          variant \in GroqVariants /\ JustEnded(q, "empty") =>
            /\ Resolved(q) /\ ~Queued(q) /\ q \notin attempts
            /\ ResponseOf(variant, lastEvent.outcome)
                 = "Sorry, I could not generate a response. Please try again.")
  /\ [][EndsWith({"empty"}) /\ variant \in GroqVariants =>
          /\ successfulRequests' = successfulRequests + 1
          /\ failedRequests' = failedRequests
          /\ retryCount' = retryCount
          /\ requeues' = requeues
          /\ requestQueue' = requestQueue]_vars
  /\ [][\A q \in Queries : Resolved(q) => q \notin Range(requestQueue')]_vars

\* an attempt relaunched after a failure has ended with an empty response
C20_Witness ==
  \E q \in Queries :
    /\ variant = "persist" /\ JustEnded(q, "empty") /\ finishing = {q}
    /\ Resolved(q) /\ retryCount[q] > 0
    /\ Len(requestQueue) > 0

\* the upstream call of the attempt succeeded (HTTP 200 with a completion)
UpstreamSucceeded == {"content", "blank", "empty"}

(* C21: a request whose upstream call succeeded is resolved with a         *)
(* non-empty string, whatever the content of the completion (text, empty,  *)
(* whitespace only).                                                       *)
C21_ResolvedNonEmpty ==
  \A q \in Queries : \A o \in UpstreamSucceeded :
    JustEnded(q, o) /\ Resolved(q) =>
      IF variant \in GroqVariants THEN ResponseOf(variant, o) # ""
                                  ELSE ResponseOfT(o) # ""


\* the upstream call of the attempt failed, or its timer fired first
UpstreamFailed == (UpstreamOutcomes \ UpstreamSucceeded) \cup {"timeout"}

(* C22: the message a user is sent for a request that ended in a terminal  *)
(* failure (retries used up, upstream 429, 401, 403, 413, 503, timeout) is *)
(* a text that includes the contact e-mail address.                        *)
C22_FailureNamesContact ==
  \A q \in Queries : \A o \in UpstreamFailed :
    JustEnded(q, o) /\ settled[q] # "none" =>
      IncludesContact(ReplyText(variant, o, settled[q]))

(* C23: every conversation context holds at most MAX_CONVERSATION_LENGTH   *)
(* messages, and they are the most recent of the messages appended to it,  *)
(* in the order they were appended.                                        *)
C23_ContextBounded ==
  \A key \in ContextKeys :
    /\ Len(conversationCache[key].messages) <= MAX_CONVERSATION_LENGTH
    /\ conversationCache[key].messages
         = SliceLast(appendLog[key], MAX_CONVERSATION_LENGTH)

\* a context has been appended to more often than it may hold messages
C23_Witness ==
  \E key \in ContextKeys :
    /\ Len(appendLog[key]) > MAX_CONVERSATION_LENGTH
    /\ Len(conversationCache[key].messages) = MAX_CONVERSATION_LENGTH

\* role and content of the messages of a sequence
RoleAndContent(messages) ==
  [i \in 1..Len(messages) |->
     [role |-> messages[i].role, content |-> messages[i].content]]

(* C24: buildConversationHistory returns at most HISTORY_LENGTH entries,   *)
(* and they are the most recently appended messages of the context, in the *)
(* order they were appended; it returns the empty sequence for a           *)
(* (userId, channelId) that has no context.                                *)
C24_HistoryIsMostRecent ==
  \A key \in ContextKeys :
    LET history == buildConversationHistory(conversationCache, key[1], key[2]) IN
    /\ Len(history) <= HISTORY_LENGTH
    /\ history = RoleAndContent(SliceLast(appendLog[key], HISTORY_LENGTH))
    /\ conversationCache[key] = NoContext => history = <<>>

\* a context that has dropped messages, next to a (userId, channelId)
\* without a context
C24_Witness ==
  \E key, other \in ContextKeys :
    /\ Len(appendLog[key]) > MAX_CONVERSATION_LENGTH
    /\ Len(buildConversationHistory(conversationCache, key[1], key[2])) = HISTORY_LENGTH
    /\ conversationCache[other] = NoContext

\* the context of the key exists and has been inactive for longer than
\* CACHE_TIMEOUT
Expired(key) ==
  /\ conversationCache[key] # NoContext
  /\ now - conversationCache[key].lastActivity > CACHE_TIMEOUT

\* the step is a run of cleanupCache
Sweep ==
  lastEvent'.outcome = "cleanupCache" /\ now' = now /\ submitted' = submitted

(* C25: a run of cleanupCache removes every context that has been inactive *)
(* for longer than CACHE_TIMEOUT and leaves every other context as it was. *)
C25_SweepRemovesExpiredOnly ==
  [][Sweep =>
       \A key \in ContextKeys :
         IF Expired(key) THEN conversationCache'[key] = NoContext
                         ELSE conversationCache'[key] = conversationCache[key]]_vars

\* a sweep has removed a context and kept one that is exactly CACHE_TIMEOUT old
C25_Witness ==
  /\ lastEvent.outcome = "cleanupCache" /\ lastEvent.q > 0
  /\ \E key \in ContextKeys :
       /\ conversationCache[key] # NoContext
       /\ now - conversationCache[key].lastActivity = CACHE_TIMEOUT

(* C26: a step appends to a conversation context only when it completes a  *)
(* request that has both ids and whose upstream call succeeded, and then it *)
(* appends the query followed by the response; a step that ends a failed   *)
(* attempt leaves the cache as it was.                                     *)
C26_CacheChangesOnSuccessOnly ==
  /\ [][\A key \in ContextKeys :
          /\ conversationCache'[key] # NoContext
          /\ conversationCache'[key].messages # conversationCache[key].messages
          => \E q \in Queries :
               /\ lastEvent'.q = q /\ lastEvent'.outcome \in UpstreamSucceeded
               /\ settled'[q] = "resolved"
               /\ HasIds(requestIds[q])
               /\ key = getContextKey(requestIds[q][1], requestIds[q][2])
               /\ appendLog'[key] =
                    appendLog[key]
                      \o Exchange(q, ResponseOf(variant, lastEvent'.outcome), now)]_vars
  /\ [][EndsWith(UpstreamFailed) => conversationCache' = conversationCache]_vars

\* the snapshot file is not a well-formed snapshot
Malformed(file) ==
  \/ file \in rGarbled
  \/ file = "queue" /\ rQueueFile # NoFile
       /\ \E i \in 1..Len(rQueueFile[1]) : rQueueFile[1][i] = Null
  \/ file = "cache" /\ rCacheFile # NoFile
       /\ \E k \in DOMAIN rCacheFile[1] : rCacheFile[1][k] = Null

(* C27: with a missing or malformed queue snapshot loadPersistedQueue      *)
(* returns having enqueued and launched nothing, and with a missing or     *)
(* malformed cache snapshot loadConversationCache returns having loaded no *)
(* context.                                                                *)
C27_LoadIsBestEffort ==
  /\ rPhase \in {"queueLoaded", "reloaded"} /\ (rQueueFile = NoFile \/ Malformed("queue"))
       => rQueueAfter = <<>> /\ rLaunchedAfter = <<>>
  /\ rPhase = "reloaded" /\ (rCacheFile = NoFile \/ Malformed("cache"))
       => rCacheAfter = <<>>

\* the requests in flight: the handlers of index.ts in progress and the
\* upstream calls of the dispatcher
InFlight == Cardinality(ActiveUsers) + activeGroqRequests

(* C28: once the shutdown signal has been handled no new request is        *)
(* admitted; the process exits only when no request is in flight and the   *)
(* snapshot is written, or when the shutdown timeout has elapsed.          *)
C28_GracefulShutdown ==
  /\ [][phase # "running" =>
          /\ submitted' = submitted
          /\ \A u \in Users : GetOr(handlerCount', u, 0) <= GetOr(handlerCount, u, 0)]_vars
  /\ [][phase \notin Exited /\ phase' \in Exited =>
          \/ phase' = "exitedTimeout"
          \/ InFlight = 0 /\ phase' = "exitedSaved"]_vars

\* the names of the organising team in the data file
KnownNames == {"nirav"}
\* the revisions that classify a query as general knowledge
ClassifyingRevisions == {"dynamic", "hardcoded", "plain"}

(* C29: in every revision that classifies, a query is general knowledge    *)
(* exactly when it contains a generic-knowledge marker, no domain marker   *)
(* and no known name; a query that contains a known name is domain         *)
(* specific and has the topic 'team'.                                      *)
C29_NamesAreDomainSpecific ==
  selResult.called /\ selRevision \in ClassifyingRevisions =>
    LET generic == \E m \in gkIndicators(selRevision) : Includes(selQuery, m)
        domain == \E m \in hackathonIndicators(selRevision) : Includes(selQuery, m)
        named == \E name \in KnownNames : Includes(selQuery, name)
    IN /\ selResult.isGeneralKnowledge <=> (generic /\ ~domain /\ ~named)
       /\ named => /\ ~selResult.isGeneralKnowledge
                   /\ "team" \in Range(selResult.detectedTopics)

\* the groups whose keywords the query contains
GroupsHit == {g \in Range(GroupOrder) : GroupHit(selRevision, g, selQuery)}
\* the bundle holds at least the value under the key
Covers(held, value) ==
  held = value \/ (held = "statistics" /\ value = "statistics.prize_pool")

(* C30: for a domain-specific query the topic of every group that has a  *)
(* hit is recorded, and no other group's, and all of the group's data is   *)
(* in the bundle, also where a later group writes the same key; the topic  *)
(* 'general' is recorded, with the overview in the bundle, exactly when no *)
(* group hit, so the topics are never empty and 'general' stands alone.    *)
C30_TopicsAreGroupsHit ==
  selResult.called /\ ~selResult.isGeneralKnowledge =>
    LET topics == Range(selResult.detectedTopics) IN
    /\ \A g \in Range(GroupOrder) :
         /\ g \in topics <=> g \in GroupsHit
         /\ g \in GroupsHit =>
              \A i \in 1..Len(GroupData(selRevision, g)) :
                Covers(selResult.relevantInfo[GroupData(selRevision, g)[i][1]],
                       GroupData(selRevision, g)[i][2])
    /\ "general" \in topics <=> GroupsHit = {}
    /\ "general" \in topics => selResult.relevantInfo["overview"] # Undefined
    /\ topics # {}
    /\ "general" \in topics => topics = {"general"}

\* a query about prizes and statistics has been answered with both
C30_Witness ==
  /\ selResult.called /\ ~selResult.isGeneralKnowledge
  /\ {"prizes", "statistics"} \subseteq GroupsHit
  /\ selResult.relevantInfo["statistics"] = "statistics"
  /\ selResult.relevantInfo["prizes"] = "prizes"

(* C31: a request pushed back by the .catch handler stands at the tail of  *)
(* requestQueue, and when it is launched again every request that was in   *)
(* the queue at the moment of its failure has been launched before it.     *)
C31_RetryAtTail ==
  /\ \A q \in finishing :
       Queued(q) => requestQueue[Len(requestQueue)] = q
  /\ \A q \in attempts : ahead[q] = {}

\* a failed request has been pushed back behind requests that were waiting
C31_Witness ==
  \E q \in finishing :
    /\ requeues[q] > 0 /\ ahead[q] # {}
    /\ Queued(q) /\ requestQueue[Len(requestQueue)] = q

(* C32: resolve or reject is called at most once on the promise of every   *)
(* request: a settled promise was settled by exactly one call, after a     *)
(* retry as well, and in the timeout revision the late result of a call    *)
(* that timed out does not settle it again.                                *)
C32_SettledOnce ==
  \A q \in Queries :
    /\ settleCount[q] <= 1
    /\ settled[q] \in {"resolved", "rejected"} <=> settleCount[q] = 1
    /\ settled[q] = "none" <=> settleCount[q] = 0

\* the upstream call of a request that timed out has returned afterwards
C32_Witness ==
  /\ variant = "timeout"
  /\ lastEvent.outcome = "timeout"
  /\ lastEvent.q \in Queries
  /\ lastEvent.q \notin upstreamOpen
  /\ settleCount[lastEvent.q] = 1

C34_UpstreamCallsBounded ==
  variant = "timeout" => Cardinality(upstreamOpen) <= MAX_CONCURRENT_REQUESTS

(* C35: the queue file does not fall back to an older snapshot.  Every     *)
(* handler that changes requestQueue ends with a saveQueue call or is      *)
(* followed by the .finally handler that makes one, so between handlers    *)
(* requestQueue is the queue as of the latest saveQueue call: once no      *)
(* saveQueue call is pending and every write has completed, the file holds *)
(* requestQueue.                                                           *)
C35_SnapshotsDoNotRegress ==
  (/\ variant = "persist" /\ finishing = {}
   /\ pendingSaves = 0 /\ pendingWrites = {} /\ queueFile # NoFile)
  => queueFile = File(requestQueue)

\* the window holds fewer than MAX_REQUESTS_PER_WINDOW timestamps of user u
\* at time t and the latest of them is at least the cooldown old
WindowAndCooldownAllow(limits, u, t) ==
  LET inside == InWindow(limits, u, t) IN
  /\ Len(inside) < MAX_REQUESTS_PER_WINDOW
  /\ \A i \in 1..Len(inside) : t - inside[i] >= COOLDOWN_BETWEEN_REQUESTS_MS

\* the step is a call by user u that is denied by the block or the cooldown
DeniedByBlockOrCooldown(u) ==
  /\ CallBy(u) /\ ~lastCheck'.allowed
  /\ \/ Blocked(u)
     \/ Len(InWindow(userRateLimits, u, now)) < MAX_REQUESTS_PER_WINDOW

\* a call denied by the block or the cooldown pushes no timestamp and leaves
\* the latest timestamp and blockedUntil as they are
DenialLeavesRecord ==
  [][\A u \in Users : DeniedByBlockOrCooldown(u) =>
       LET before == GetUserLimit(userRateLimits, u)
           after == GetUserLimit(userRateLimits', u)
       IN /\ Range(after.timestamps) \subseteq Range(before.timestamps)
          /\ Len(after.timestamps) <= Len(before.timestamps)
          /\ after.blockedUntil = before.blockedUntil
          /\ before.timestamps # <<>> =>
               /\ after.timestamps # <<>>
               /\ SeqMax(after.timestamps) = SeqMax(before.timestamps)]_vars

C37_SoftLimitHolds ==
  /\ [](\A i \in 1..Len(requestTimestamps) :
          Cardinality({j \in i..Len(requestTimestamps) :
                         requestTimestamps[j] - requestTimestamps[i] < RATE_WINDOW_MS})
            <= MAX_REQUESTS_PER_MINUTE)
  /\ [][(submitted' = submitted + 1 /\ shouldRateLimit(requestTimestamps, now)) =>
          /\ UNCHANGED <<activeRequests, totalRequests, successfulRequests,
                         failedRequests, delayed>>
          /\ Len(requestTimestamps') <= Len(requestTimestamps)]_vars

(* C38: in the revision without a queue activeRequests never exceeds       *)
(* SAFETY_MAX_CONCURRENT, and totalRequests is the sum of                  *)
(* successfulRequests, failedRequests and activeRequests.                  *)
C38_HardLimitHolds ==
  variant = DirectVariant =>
    /\ activeRequests <= SAFETY_MAX_CONCURRENT
    /\ totalRequests = successfulRequests + failedRequests + activeRequests

(* C39: no user has more than MAX_CONCURRENT_REQUESTS_PER_USER handlers    *)
(* running at a time; a call rejected with TOO_MANY_CONCURRENT leaves the  *)
(* map as it was; a user is in the activeRequests map exactly while that   *)
(* user has a handler running, with the number of those handlers as the    *)
(* value, whether the handlers before returned or threw.                   *)
C39_PerUserSlots ==
  /\ [](\A u \in Users : running[u] <= MAX_CONCURRENT_REQUESTS_PER_USER)
  /\ [](/\ DOMAIN handlerCount = {u \in Users : running[u] >= 1}
        /\ \A u \in DOMAIN handlerCount :
             /\ handlerCount[u] = running[u]
             /\ handlerCount[u] \in 1..MAX_CONCURRENT_REQUESTS_PER_USER)
  /\ [][(thrown' = "TOO_MANY_CONCURRENT") =>
          handlerCount' = handlerCount /\ running' = running]_vars

\* a user with every slot taken has just been rejected while another user
\* has a handler running and a slot free
C39_Witness ==
  /\ thrown = "TOO_MANY_CONCURRENT"
  /\ \E u \in Users : running[u] = MAX_CONCURRENT_REQUESTS_PER_USER
  /\ \E u \in Users : running[u] \in 1..(MAX_CONCURRENT_REQUESTS_PER_USER - 1)

\* the messages are exchanges: a user entry, then the assistant entry of the
\* same query, one exchange after the other
WholeExchanges(messages) ==
  /\ Len(messages) % 2 = 0
  /\ \A i \in 1..Len(messages) :
       messages[i].role = IF i % 2 = 1 THEN "user" ELSE "assistant"
  /\ \A i \in 1..Len(messages) :
       i % 2 = 1 => messages[i].content.of = messages[i + 1].content.of

(* C40: the stored messages of every conversation context have even       *)
(* length and alternate user, assistant from a user entry on, each         *)
(* response after its query, also after the cut to MAX_CONVERSATION_LENGTH;*)
(* buildConversationHistory returns whole exchanges too, whatever the      *)
(* order in which the queries of the conversation completed.               *)
C40_WholeExchanges ==
  \A key \in ContextKeys :
    /\ WholeExchanges(conversationCache[key].messages)
    /\ WholeExchanges(buildConversationHistory(conversationCache, key[1], key[2]))

\* a context that has dropped messages and holds more than the history
\* returns, with a later query answered before an earlier one
C40_Witness ==
  \E key \in ContextKeys :
    LET messages == conversationCache[key].messages IN
    /\ Len(appendLog[key]) > MAX_CONVERSATION_LENGTH
    /\ Len(messages) > HISTORY_LENGTH
    /\ \E i \in 1..(Len(messages) - 2) :
         messages[i].content.of > messages[i + 2].content.of

====
